---- MODULE Spec2Model ----
(***************************************************************************)
(* CodeBeat: the generation lifecycle (SunoApiClient) and its audio        *)
(* player (AudioPlayer), as a state machine.                               *)
(*                                                                         *)
(* Node runs every callback to completion; control is given up only at an  *)
(* await.  Each action below is one such run-to-completion step: a user     *)
(* call, a timer tick, the arrival of a network response, a process event. *)
(***************************************************************************)
EXTENDS Integers, Sequences, FiniteSets, Bags, TLC

\* ------------------------------------------------------------- bounds
MaxJobs == 2
MaxTicks == 2
MaxInFlight == 2
MaxSubmits == 1
MaxProcs == 2
MaxPlaying == 1
MaxParams == 2
MaxDetections == 2
MaxElapsed == 5001
MaxLineCount == 10000
MaxErrorCount == 12
MaxTaskEnds == 2
MaxTimerClock == 6000
MaxAwaited == 1
MaxWarningCount == 12

\* -------------------------------------------------- program constants
maxPolls == 60
maxErrorPolls == 10
NumPlayers == 3
celebrationCooldown == 5000
analysisSensitivity == 2000
minContentLength == 50

Jobs == 1..MaxJobs

NoStatus == ""
NoUrl == [job |-> 0, kind |-> "none"]
Url(j, kind) == [job |-> j, kind |-> kind]
UrlKinds == {"stream", "final"}

\* The MusicParameters a caller passes to generateMusic (fields the client
\* reads back; mood stands for those it only forwards).
MusicParameters ==
    {[bpm |-> 60 * i, genre |-> "ambient", duration |-> 30 * i,
      mood |-> "calm"] : i \in 1..MaxParams}
NoResponse == [status |-> "none"]

VARIABLES
    apiToken,                \* SunoApiClient.apiToken is set
    started,                 \* number of poll loops started so far
    submitting,              \* makeApiCall requests awaited by generateMusic
    requests,                \* the params of the generateMusic calls awaiting
    returned,                \* what the last generateMusic call returned
    activePollingIntervals,  \* SunoApiClient.activePollingIntervals
    pollCount,               \* per poll loop: the closure's pollCount
    lastStatus,              \* per poll loop: the closure's lastStatus
    remote,                  \* per job: the clip as the service holds it
    inflight,                \* status queries awaited by a tick callback
    disposed,                \* SunoApiClient.dispose has run
    audioProcess,            \* AudioPlayer.audioProcess
    isMuted,                 \* AudioPlayer.isMuted
    currentUrl,              \* AudioPlayer.currentUrl
    playing,                 \* playAudio calls waiting in their player loop
    orphans,                 \* live player processes audioProcess does not name
    exitsPending,            \* killed processes whose 'exit' event is to come
    played,                  \* per job and URL kind: playAudio calls made
    notes,                   \* per job: what was reported to the user
    superseded               \* the loops a newer loop's start cancelled

VARIABLES
    clock,                   \* the wall clock, in ms (what new Date() reads)
    lastCelebrationTime,     \* SuccessDetectionSystem.lastCelebrationTime
    celebrationsOn,          \* settings codebeat.enabled and celebrationDrops
    detections,              \* detectSuccess calls made so far
    detected,                \* what the last detectSuccess call decided
    celebrated               \* the celebration the last triggerCelebration sent

VARIABLES
    languageId,              \* document.languageId of the analysed document
    lineCount,               \* its number of lines
    analysis,                \* the CodeAnalysis the analyser returned for it
    sizeModifier,            \* what getSizeModifier returned in the last call
    contextualParams,        \* generateFromAnalysis's contextualParams
    musicParams              \* what generateFromAnalysis returned for it

VARIABLES
    lastDiagnosticSummary,   \* DiagnosticTracker.lastDiagnosticSummary
    diagnosed,               \* the last generateFromDiagnostics call: its
                             \* arguments, isImproving and severity
    diagnosticParams         \* what that call returned

VARIABLES
    analysisText,            \* the analysisText parseAnalysisResponse was given
    parsedLanguage,          \* and its languageId
    parsedAnalysis           \* the CodeAnalysis it returned

VARIABLES
    isListening,             \* TerminalListener.isListening
    taskEnds,                \* task-process-end events handled so far
    taskEnded,               \* the last of them: task name, command, exit code
    pendingTask              \* the task_success event onTaskProcessEnd has
                             \* still to pass on, once its terminal event is
                             \* processed

VARIABLES
    isMonitoring,            \* CodeMonitor.isMonitoring
    activeTextEditor,        \* window.activeTextEditor shows the document
    documentText,            \* document.getText()
    timerClock,              \* the event loop's clock, in ms
    lastEdit,                \* when the active document was last edited
    timers,                  \* the setTimeout timers still to fire, each
                             \* named by the time it is due
    analysisTimer,           \* CodeMonitor.analysisTimer
    lastAnalyzedContent,     \* CodeMonitor.lastAnalyzedContent
    runs,                    \* analyzeDocument calls awaiting analyzeCode
    lastRun                  \* how the last of them to resume ended

VARIABLES
    configEnabled            \* the setting codebeat.enabled

clientVars == <<apiToken, started, submitting, requests, returned,
                activePollingIntervals, pollCount, lastStatus, remote,
                inflight, disposed>>
playerVars == <<audioProcess, isMuted, currentUrl, playing, orphans,
                exitsPending>>
ghostVars == <<played, notes, superseded>>
sunoVars == <<clientVars, playerVars, ghostVars>>
detectorVars == <<clock, lastCelebrationTime, celebrationsOn, detections,
                  detected, celebrated>>
generatorVars == <<languageId, lineCount, analysis, sizeModifier,
                   contextualParams, musicParams>>
diagnosticVars == <<lastDiagnosticSummary, diagnosed, diagnosticParams>>
tandemVars == <<analysisText, parsedLanguage, parsedAnalysis>>
listenerVars == <<isListening, taskEnds, taskEnded, pendingTask>>
monitorVars == <<isMonitoring, activeTextEditor, documentText, timerClock, lastEdit, timers, analysisTimer,
                lastAnalyzedContent, runs, lastRun>>
commandVars == <<configEnabled>>
laterVars == <<diagnosticVars, tandemVars, listenerVars, monitorVars,
               commandVars>>
otherVars == <<detectorVars, generatorVars, laterVars>>
vars == <<sunoVars, otherVars>>

\* ------------------------------------------------------- AudioPlayer

\* stopAudio: a tracked process is sent SIGTERM; its 'exit' event follows.
StopAudioKills(proc) == IF proc = "live" THEN 1 ELSE 0

\* Live and dying processes the operating system still knows about.
ProcLoad == orphans + exitsPending + (IF audioProcess = "live" THEN 1 ELSE 0)

\* A spawn either starts the player or fails ('error' event, no 'exit').
SpawnOutcomes == {"live", "dead"}

\* playAudio up to its first timer await: record the URL, stop the current
\* process, return if muted, else spawn the first player of the list.
PlayAudio(url, muted) ==
    /\ currentUrl' = url
    /\ exitsPending' = exitsPending + StopAudioKills(audioProcess)
    /\ IF muted
       THEN /\ audioProcess' = "null"
            /\ playing' = playing
       ELSE /\ audioProcess' \in SpawnOutcomes
            /\ playing' = playing (+) SetToBag({1})
    /\ UNCHANGED orphans

PlayAudioRoom == BagCardinality(playing) < MaxPlaying /\ ProcLoad < MaxProcs

\* stopAudio as a whole.
StopAudio ==
    /\ exitsPending' = exitsPending + StopAudioKills(audioProcess)
    /\ audioProcess' = "null"
    /\ UNCHANGED <<currentUrl, playing, orphans>>

\* The one-second timer of a playAudio call that tried player number idx.
PlayAudioWake(idx) ==
    /\ BagIn(idx, playing)
    /\ IF audioProcess # "null"
       THEN /\ playing' = playing (-) SetToBag({idx})
            /\ UNCHANGED audioProcess
       ELSE IF idx < NumPlayers
       THEN /\ ProcLoad < MaxProcs
            /\ audioProcess' \in SpawnOutcomes
            /\ playing' = (playing (-) SetToBag({idx})) (+) SetToBag({idx + 1})
       ELSE /\ playing' = playing (-) SetToBag({idx})
            /\ UNCHANGED audioProcess
    /\ UNCHANGED <<isMuted, currentUrl, orphans, exitsPending>>
    /\ UNCHANGED <<clientVars, ghostVars>>
    /\ UNCHANGED otherVars

\* The 'exit' handler of any spawned process: this.audioProcess = null.
\* The tracked process ends by itself.
TrackedExit ==
    /\ audioProcess = "live"
    /\ audioProcess' = "null"
    /\ UNCHANGED <<isMuted, currentUrl, playing, orphans, exitsPending>>
    /\ UNCHANGED <<clientVars, ghostVars>>
    /\ UNCHANGED otherVars

\* A process the player no longer tracks ends by itself; its handler clears
\* audioProcess all the same, so a tracked live process becomes untracked.
OrphanExit ==
    /\ orphans > 0
    /\ audioProcess' = "null"
    /\ orphans' = orphans - 1 + (IF audioProcess = "live" THEN 1 ELSE 0)
    /\ UNCHANGED <<isMuted, currentUrl, playing, exitsPending>>
    /\ UNCHANGED <<clientVars, ghostVars>>
    /\ UNCHANGED otherVars

\* The 'exit' event of a process stopAudio killed.
KilledExit ==
    /\ exitsPending > 0
    /\ exitsPending' = exitsPending - 1
    /\ audioProcess' = "null"
    /\ orphans' = orphans + (IF audioProcess = "live" THEN 1 ELSE 0)
    /\ UNCHANGED <<isMuted, currentUrl, playing>>
    /\ UNCHANGED <<clientVars, ghostVars>>
    /\ UNCHANGED otherVars

\* toggleMute (the toggleAudio command, or a notification's Mute button).
ToggleMute ==
    /\ ~disposed
    /\ isMuted' = ~isMuted
    /\ IF ~isMuted
       THEN StopAudio
       ELSE IF currentUrl # NoUrl
       THEN PlayAudioRoom /\ PlayAudio(currentUrl, FALSE)
       ELSE UNCHANGED <<audioProcess, currentUrl, playing, orphans,
                        exitsPending>>
    /\ UNCHANGED <<clientVars, ghostVars>>
    /\ UNCHANGED otherVars

\* ----------------------------------------------------- SunoApiClient

\* A clip as the service creates it.
NewClip == [status |-> "submitted", hasUrl |-> FALSE]

\* The service's clips are followed only while a tick can still query them:
\* once a loop is cancelled no later query reads its clip.
Followed(intervals) ==
    [j \in Jobs |-> IF j \in intervals THEN remote[j] ELSE NewClip]

\* clearAllPollingIntervals
ClearAllPollingIntervals(intervals) == {}

\* removePollingInterval
RemovePollingInterval(intervals, j) == intervals \ {j}

\* An error record that carries nothing of the request.
BlankErrorResponse(params) ==
    [status |-> "error", metadata |-> [bpm |-> 0, genre |-> "", duration |-> 0]]

\* The record generateMusic returns without a token or from its catch block.
ErrorResponse(params) ==
    [status |-> "error",
     metadata |-> [bpm |-> params.bpm, genre |-> params.genre,
                   duration |-> params.duration]]

\* The record makeApiCall builds from the service's answer.
ApiResponse(params) ==
    [status |-> NewClip.status,
     metadata |-> [bpm |-> params.bpm, genre |-> params.genre,
                   duration |-> params.duration]]

\* generateMusic up to its await of makeApiCall; without a token it returns
\* the mock error record at once and starts nothing.
CallGenerateMusic(params) ==
    /\ IF apiToken
       THEN /\ submitting' = submitting + 1
            /\ requests' = requests (+) SetToBag({params})
            /\ UNCHANGED returned
       ELSE /\ returned' = ErrorResponse(params)
            /\ UNCHANGED <<submitting, requests>>
    /\ UNCHANGED <<apiToken, started, activePollingIntervals, pollCount,
                   lastStatus, remote, inflight, disposed>>
    /\ UNCHANGED <<playerVars, ghostVars>>

\* A generateMusic call of the code monitor or the diagnostic tracker.
GenerateMusic ==
    /\ ~disposed
    /\ \E params \in MusicParameters : CallGenerateMusic(params)
    /\ UNCHANGED otherVars

\* A failing submission whose intervals were cleared before makeApiCall was
\* awaited.
SubmitFailsClearing ==
    /\ submitting > 0
    /\ submitting' = submitting - 1
    /\ \E params \in DOMAIN requests :
           /\ requests' = requests (-) SetToBag({params})
           /\ returned' = ErrorResponse(params)
    /\ activePollingIntervals' =
           ClearAllPollingIntervals(activePollingIntervals)
    /\ remote' = Followed(activePollingIntervals')
    /\ UNCHANGED <<apiToken, started, pollCount, lastStatus, inflight,
                   disposed>>
    /\ UNCHANGED <<playerVars, ghostVars>>
    /\ UNCHANGED otherVars

\* makeApiCall throws (network error, non-OK response): generateMusic
\* catches and returns an error record.
SubmitFails ==
    /\ submitting > 0
    /\ submitting' = submitting - 1
    /\ \E params \in DOMAIN requests :
           /\ requests' = requests (-) SetToBag({params})
           /\ returned' = ErrorResponse(params)
    /\ UNCHANGED <<apiToken, started, activePollingIntervals, pollCount,
                   lastStatus, remote, inflight, disposed>>
    /\ UNCHANGED <<playerVars, ghostVars>>
    /\ UNCHANGED otherVars

\* A startPollingForStatus that registers without clearing first.
StartPollingNoClear(intervals, j) == intervals \cup {j}

\* makeApiCall returns the new clip: startPollingForStatus clears every
\* registered interval, then registers the new one.
StartPollingForStatus(intervals, j) ==
    ClearAllPollingIntervals(intervals) \cup {j}

SubmitReturns ==
    /\ submitting > 0
    /\ submitting' = submitting - 1
    /\ started' = started + 1
    /\ \E params \in DOMAIN requests :
           /\ requests' = requests (-) SetToBag({params})
           /\ returned' = ApiResponse(params)
    /\ activePollingIntervals' =
           StartPollingForStatus(activePollingIntervals, started + 1)
    /\ superseded' = superseded \cup activePollingIntervals
    /\ remote' = Followed(activePollingIntervals')
    /\ UNCHANGED <<apiToken, pollCount, lastStatus, inflight, disposed>>
    /\ UNCHANGED <<playerVars, played, notes>>
    /\ UNCHANGED otherVars

\* The generation service moves a clip on.
RemoteNext(r) ==
    CASE r.status = "submitted" ->
             {[status |-> "queued", hasUrl |-> FALSE],
              [status |-> "error", hasUrl |-> FALSE]}
      [] r.status = "queued" ->
             {[status |-> "streaming", hasUrl |-> u] : u \in BOOLEAN}
             \cup {[status |-> "error", hasUrl |-> FALSE]}
      [] r.status = "streaming" ->
             {[status |-> "complete", hasUrl |-> u] : u \in BOOLEAN}
             \cup {[status |-> "error", hasUrl |-> FALSE]}
             \cup (IF r.hasUrl THEN {}
                   ELSE {[status |-> "streaming", hasUrl |-> TRUE]})
      [] r.status = "complete" ->
             IF r.hasUrl THEN {}
             ELSE {[status |-> "complete", hasUrl |-> TRUE]}
      [] OTHER -> {}

\* Only a clip that a later tick can still query is followed.
RemoteAdvance(j) ==
    /\ j \in activePollingIntervals
    /\ \E r \in RemoteNext(remote[j]) : remote' = [remote EXCEPT ![j] = r]
    /\ UNCHANGED <<apiToken, started, submitting, requests, returned,
                   activePollingIntervals, pollCount, lastStatus, inflight,
                   disposed>>
    /\ UNCHANGED <<playerVars, ghostVars>>
    /\ UNCHANGED otherVars

\* checkClipStatus: what a query issued now will return, or that it throws.
AudioUrl(j, r) ==
    IF ~r.hasUrl THEN NoUrl
    ELSE IF r.status = "streaming" THEN Url(j, "stream")
    ELSE Url(j, "final")

CheckClipStatus(j) ==
    {[job |-> j, ok |-> TRUE, status |-> remote[j].status,
      audio_url |-> AudioUrl(j, remote[j])],
     [job |-> j, ok |-> FALSE, status |-> NoStatus, audio_url |-> NoUrl]}

\* A timer tick of poll loop j, up to its await: count it, issue the query.
Tick(j) ==
    /\ j \in activePollingIntervals
    /\ pollCount' = [pollCount EXCEPT ![j] = @ + 1]
    /\ \E q \in CheckClipStatus(j) : inflight' = inflight (+) SetToBag({q})
    /\ UNCHANGED <<apiToken, started, submitting, requests, returned,
                   activePollingIntervals, lastStatus, remote, disposed>>
    /\ UNCHANGED <<playerVars, ghostVars>>
    /\ UNCHANGED otherVars

\* A tick callback that handles every fetched status as a transition.
StatusAlwaysChanged(q) == TRUE

\* The rest of the tick callback, once its query q has returned or thrown.
StatusChanged(q) == q.status # lastStatus[q.job]

StartsStream(q) == q.status = "streaming" /\ q.audio_url # NoUrl

Completes(q) == q.status = "complete" /\ q.audio_url # NoUrl

\* An error branch that tests for a status the service never sends.
FailsOnFailed(q) == q.status = "failed"

Fails(q) == q.status = "error"

\* An attempt budget that is never spent.
BudgetNeverSpent(j) == FALSE

BudgetSpent(j) == pollCount[j] >= maxPolls

\* An error budget that is never spent.
ErrorBudgetNeverSpent(j) == FALSE

ErrorBudgetSpent(j) == pollCount[j] >= maxErrorPolls

\* The attempt-budget check that ends the try block (lines 603-608).
AfterBudgetCheck(intervals, j) ==
    IF BudgetSpent(j) THEN RemovePollingInterval(intervals, j) ELSE intervals

TimeoutReport(j) == IF BudgetSpent(j) THEN {"timeout"} ELSE {}

Report(j, what) == notes' = [notes EXCEPT ![j] = @ \cup what]

CallPlayAudio(q) ==
    /\ PlayAudioRoom
    /\ PlayAudio(q.audio_url, isMuted)
    /\ played' = [played EXCEPT ![q.job][q.audio_url.kind] = @ + 1]
    /\ UNCHANGED isMuted

\* The query threw: the catch block.
HandleThrow(q) ==
    /\ ~q.ok
    /\ activePollingIntervals' =
           IF ErrorBudgetSpent(q.job)
           THEN RemovePollingInterval(activePollingIntervals, q.job)
           ELSE activePollingIntervals
    /\ UNCHANGED <<lastStatus, playerVars, played, notes>>

\* The status is the one last recorded: only the budget check runs.
HandleSame(q) ==
    /\ q.ok /\ ~StatusChanged(q)
    /\ activePollingIntervals' =
           AfterBudgetCheck(activePollingIntervals, q.job)
    /\ Report(q.job, TimeoutReport(q.job))
    /\ UNCHANGED <<lastStatus, playerVars, played>>

\* The status differs from the one last recorded.
HandleChange(q) ==
    /\ q.ok /\ StatusChanged(q)
    /\ lastStatus' = [lastStatus EXCEPT ![q.job] = q.status]
    /\ CASE StartsStream(q) ->
              /\ CallPlayAudio(q)
              /\ activePollingIntervals' =
                     AfterBudgetCheck(activePollingIntervals, q.job)
              /\ Report(q.job, {"streaming"} \cup TimeoutReport(q.job))
         [] Completes(q) ->
              /\ CallPlayAudio(q)
              /\ activePollingIntervals' =
                     RemovePollingInterval(activePollingIntervals, q.job)
              /\ Report(q.job, {"complete"})
         [] Fails(q) ->
              /\ activePollingIntervals' =
                     RemovePollingInterval(activePollingIntervals, q.job)
              /\ Report(q.job, {"error"})
              /\ UNCHANGED <<playerVars, played>>
         [] OTHER ->
              /\ activePollingIntervals' =
                     AfterBudgetCheck(activePollingIntervals, q.job)
              /\ Report(q.job, TimeoutReport(q.job))
              /\ UNCHANGED <<playerVars, played>>

Response(q) ==
    /\ BagIn(q, inflight)
    /\ inflight' = inflight (-) SetToBag({q})
    /\ UNCHANGED superseded
    /\ \/ HandleThrow(q)
       \/ HandleSame(q)
       \/ HandleChange(q)
    /\ remote' = Followed(activePollingIntervals')
    /\ UNCHANGED <<apiToken, started, submitting, requests, returned,
                   pollCount, disposed>>
    /\ UNCHANGED otherVars

\* dispose: clear the intervals, stop the audio.
Dispose ==
    /\ ~disposed
    /\ disposed' = TRUE
    /\ activePollingIntervals' =
           ClearAllPollingIntervals(activePollingIntervals)
    /\ StopAudio
    /\ remote' = Followed(activePollingIntervals')
    /\ UNCHANGED <<apiToken, started, submitting, requests, returned,
                   pollCount, lastStatus, inflight, isMuted>>
    /\ UNCHANGED ghostVars
    /\ UNCHANGED otherVars

\* --------------------------------------------- SuccessDetectionSystem

\* Text is a string; String.includes, toLowerCase and the regular expressions
\* of the pattern table are computed on its characters.
UpperCase == "ABCDEFGHIJKLMNOPQRSTUVWXYZ"
LowerCase == "abcdefghijklmnopqrstuvwxyz"
Digits == {"0", "1", "2", "3", "4", "5", "6", "7", "8", "9"}

CharAt(text, i) == SubSeq(text, i, i)

LowerChar(c) ==
    IF \E i \in 1..Len(UpperCase) : CharAt(UpperCase, i) = c
    THEN CharAt(LowerCase, CHOOSE i \in 1..Len(UpperCase) :
                               CharAt(UpperCase, i) = c)
    ELSE c

RECURSIVE ToLowerCase(_)
ToLowerCase(text) ==
    IF text = "" THEN ""
    ELSE LowerChar(CharAt(text, 1)) \o ToLowerCase(SubSeq(text, 2, Len(text)))

\* literal occurs in text at position i.
OccursAt(text, literal, i) ==
    /\ i + Len(literal) - 1 <= Len(text)
    /\ SubSeq(text, i, i + Len(literal) - 1) = literal

\* String.prototype.includes
Includes(text, keyword) == \E i \in 1..Len(text) : OccursAt(text, keyword, i)

\* RegExp.test for a case-insensitive expression p1.*p2.*...pn, given as the
\* sequence of its parts, each part the set of lower-case literals it can
\* read: the parts occur in this order, without overlap, from position `from`.
RECURSIVE RegExpTestFrom(_, _, _)
RegExpTestFrom(parts, text, from) ==
    IF parts = <<>> THEN TRUE
    ELSE \E literal \in Head(parts) :
             \E i \in from..Len(text) :
                 /\ OccursAt(text, literal, i)
                 /\ RegExpTestFrom(Tail(parts), text, i + Len(literal))

RegExpTest(parts, text) == RegExpTestFrom(parts, ToLowerCase(text), 1)

\* successPatterns, in table order; confidence in hundredths.
successPatterns ==
    << [pattern |-> <<{"webpack"}, {"compiled successfully"}>>,
        celebrationType |-> "compilation_success", confidence |-> 95,
        description |-> "Webpack compilation successful"],
       [pattern |-> <<{"typescript"}, {"compilation"}, {"complete"}>>,
        celebrationType |-> "compilation_success", confidence |-> 90,
        description |-> "TypeScript compilation complete"],
       [pattern |-> <<{"built successfully", "buil successfully"}>>,
        celebrationType |-> "compilation_success", confidence |-> 85,
        description |-> "Build successful"],
       [pattern |-> <<{"compilation"}, {"successful"}>>,
        celebrationType |-> "compilation_success", confidence |-> 90,
        description |-> "Compilation successful"],
       [pattern |-> <<{"all test pass", "all tests pass"}>>,
        celebrationType |-> "test_pass", confidence |-> 95,
        description |-> "All tests passed"],
       [pattern |-> <<{d \o " passing" : d \in Digits}>>,
        celebrationType |-> "test_pass", confidence |-> 80,
        description |-> "Tests passing"],
       [pattern |-> <<{"jest"}, Digits, {"passed"}>>,
        celebrationType |-> "test_pass", confidence |-> 90,
        description |-> "Jest tests passed"],
       [pattern |-> <<{"mocha"}, Digits, {"passing"}>>,
        celebrationType |-> "test_pass", confidence |-> 90,
        description |-> "Mocha tests passing"],
       [pattern |-> <<{"deployed", "deployment"}, {"success"}>>,
        celebrationType |-> "deployment", confidence |-> 95,
        description |-> "Deployment successful"],
       [pattern |-> <<{"published"}, {"successfully"}>>,
        celebrationType |-> "deployment", confidence |-> 90,
        description |-> "Package published successfully"],
       [pattern |-> <<{"build"}, {"deployed"}>>,
        celebrationType |-> "deployment", confidence |-> 85,
        description |-> "Build deployed"],
       [pattern |-> <<{"fix"}, {"bug"}>>,
        celebrationType |-> "bug_fix", confidence |-> 70,
        description |-> "Bug fix detected"],
       [pattern |-> <<{"resolved"}, {"issue"}>>,
        celebrationType |-> "bug_fix", confidence |-> 70,
        description |-> "Issue resolved"],
       [pattern |-> <<{"error"}, {"resolved"}>>,
        celebrationType |-> "bug_fix", confidence |-> 80,
        description |-> "Error resolved"] >>

\* null
NoPattern == [pattern |-> <<>>, celebrationType |-> "none", confidence |-> 0,
              description |-> "none"]

\* A testPattern that scores a match at half the declared confidence.
testPatternHalf(pattern, text) ==
    IF RegExpTest(pattern.pattern, text) THEN pattern.confidence \div 2 ELSE 0

\* testPattern: the declared confidence on a match, else 0.
testPattern(pattern, text) ==
    IF RegExpTest(pattern.pattern, text) THEN pattern.confidence ELSE 0

\* extractTextFromEvent; the empty message is what analyzeEvent turns away.
extractTextFromEvent(event) ==
    CASE event.type = "terminal_output" -> event.details.message
      [] event.type = "task_success" ->
             event.details.taskName \o " " \o event.details.command
                 \o " completed"
      [] event.type = "diagnostic_improvement" ->
             "errors reduced from " \o ToString(event.details.previousErrors)
                 \o " to " \o ToString(event.details.currentErrors)
      [] event.type = "file_system" ->
             "new file created: " \o event.details.filePath
      [] event.type = "manual" ->
             IF event.details.description = "" THEN "manual celebration"
             ELSE event.details.description

buildKeywords ==
    {"build", "compile", "webpack", "rollup", "parcel", "vite", "tsc",
     "babel", "esbuild", "swc", "maven", "gradle", "cargo build", "go build",
     "make", "cmake"}

testKeywords ==
    {"test", "jest", "mocha", "jasmine", "karma", "cypress", "playwright",
     "vitest", "ava", "tap", "lab", "pytest", "unittest", "phpunit", "rspec",
     "gtest"}

deployKeywords ==
    {"deploy", "publish", "release", "ship", "upload", "push", "heroku",
     "vercel", "netlify", "aws deploy", "docker push", "npm publish",
     "yarn publish"}

HasKeyword(keywords, taskName, command) ==
    LET text == ToLowerCase(taskName \o " " \o command)
    IN  \E keyword \in keywords : Includes(text, keyword)

isBuildCommand(taskName, command) == HasKeyword(buildKeywords, taskName, command)

isTestCommand(taskName, command) == HasKeyword(testKeywords, taskName, command)

isDeployCommand(taskName, command) ==
    HasKeyword(deployKeywords, taskName, command)

ExitCodePattern(name, celebrationType, description) ==
    [pattern |-> <<{name}>>, celebrationType |-> celebrationType,
     confidence |-> 80, description |-> description]

\* The pattern loop of analyzeEvent from table entry i on: bestMatch after
\* the last entry.
RECURSIVE PatternLoop(_, _, _, _)
PatternLoop(text, i, bestMatch, bestConfidence) ==
    IF i > Len(successPatterns) THEN bestMatch
    ELSE LET pattern == successPatterns[i]
             confidence == testPattern(pattern, text)
         IN  IF /\ confidence > bestConfidence
                /\ confidence * 10 >= pattern.confidence * 8
             THEN PatternLoop(text, i + 1, pattern, confidence)
             ELSE PatternLoop(text, i + 1, bestMatch, bestConfidence)

\* The general-table result: bestMatch when the loop is done.
GeneralMatch(event) ==
    LET textToAnalyze == extractTextFromEvent(event)
    IN  IF textToAnalyze = "" THEN NoPattern
        ELSE PatternLoop(textToAnalyze, 1, NoPattern, 0)

\* The exit-code special case: the pattern it returns, or NoPattern when it
\* does not apply.
ExitCodeMatch(event) ==
    IF event.type = "task_success" /\ event.details.exitCode = 0
    THEN LET taskName == ToLowerCase(event.details.taskName)
             command == ToLowerCase(event.details.command)
         IN  IF isBuildCommand(taskName, command)
             THEN ExitCodePattern("exit_code_0_build", "compilation_success",
                      "Build task completed successfully (exit code 0)")
             ELSE IF isTestCommand(taskName, command)
             THEN ExitCodePattern("exit_code_0_test", "test_pass",
                      "Test task completed successfully (exit code 0)")
             ELSE IF isDeployCommand(taskName, command)
             THEN ExitCodePattern("exit_code_0_deploy", "deployment",
                      "Deploy task completed successfully (exit code 0)")
             ELSE NoPattern
    ELSE NoPattern

\* analyzeEvent: null for an empty text; else the exit-code pattern when the
\* special case applies, else bestMatch.
analyzeEvent(event) ==
    IF extractTextFromEvent(event) = "" THEN NoPattern
    ELSE IF ExitCodeMatch(event) # NoPattern THEN ExitCodeMatch(event)
    ELSE GeneralMatch(event)

\* The events the listeners pass to detectSuccess.
TerminalMessages ==
    {"", "Task lint succeeded", "webpack 5.1 compiled successfully",
     "All tests passed", "Build deployed successfully",
     "fixed bug: error resolved",
     "TypeScript compilation complete: compilation successful"}
TaskNames == {"lint", "build", "Deploy"}
Commands ==
    {"jest", "npx jest --ci", "docker push myapp:v2",
     "docker push myapp:latest", "npm run lint", "echo deployed"}
ExitCodes == {0, 1}

SuccessEvents ==
    {[type |-> "terminal_output", details |-> [message |-> m]] :
         m \in TerminalMessages}
    \cup {[type |-> "task_success",
           details |-> [taskName |-> t, command |-> c, exitCode |-> x]] :
              t \in TaskNames, c \in Commands, x \in ExitCodes}
    \cup {[type |-> "diagnostic_improvement",
           details |-> [previousErrors |-> 3, currentErrors |-> 0]]}
    \cup {[type |-> "file_system", details |-> [filePath |-> p]] :
              p \in {"/w/dist/app.js", "/w/build/deployed.js"}}
    \cup {[type |-> "manual", details |-> [description |-> d]] :
              d \in {"", "error resolved"}}

\* The tasks whose ends the terminal listener hears of, and the events it
\* makes of them.
EndedTaskNames == TaskNames \cup {"all tests pass"}
EndedTaskCommands == {"jest", "echo deployed"}

TaskEndEvents ==
    {[type |-> "terminal_output",
      details |-> [message |-> "Task " \o taskName \o " succeeded"]] :
         taskName \in EndedTaskNames}
    \cup {[type |-> "task_success",
           details |-> [taskName |-> t, command |-> c, exitCode |-> 0]] :
              t \in EndedTaskNames, c \in EndedTaskCommands}

\* analyzeEvent on each of these events, and the bestMatch of its pattern
\* loop, computed once.
Analyzed == [event \in SuccessEvents \cup TaskEndEvents |-> analyzeEvent(event)]
BestMatches ==
    [event \in SuccessEvents \cup TaskEndEvents |-> GeneralMatch(event)]

\* getCelebrationParameters (the fields the client reads back).
getCelebrationParameters(celebrationType) ==
    CASE celebrationType = "compilation_success" ->
             [bpm |-> 130, genre |-> "epic orchestral", duration |-> 45,
              mood |-> "triumphant"]
      [] celebrationType = "bug_fix" ->
             [bpm |-> 110, genre |-> "uplifting electronic", duration |-> 30,
              mood |-> "relieved"]
      [] celebrationType = "test_pass" ->
             [bpm |-> 120, genre |-> "uplifting pop electronic",
              duration |-> 35, mood |-> "confident"]
      [] celebrationType = "deployment" ->
             [bpm |-> 140, genre |-> "full orchestral finale",
              duration |-> 60, mood |-> "victorious"]

NoCelebration == [celebrationType |-> "none", description |-> "none"]
NoEvent == [type |-> "none", details |-> <<>>]
NoDecision == [event |-> NoEvent, cooldown |-> FALSE, bestMatch |-> NoPattern,
               pattern |-> NoPattern]

\* A cooldown test that never finds a cooldown running.
isInCooldownNever == FALSE

\* A cooldown test whose window is one millisecond short.
isInCooldownShort == clock - lastCelebrationTime < celebrationCooldown - 1

isInCooldown == clock - lastCelebrationTime < celebrationCooldown

\* A triggerCelebration that notes the time and notifies, without calling
\* the client.
triggerCelebrationSilent(celebrationType, description) ==
    IF ~celebrationsOn
    THEN UNCHANGED <<lastCelebrationTime, celebrated, sunoVars>>
    ELSE /\ lastCelebrationTime' = clock
         /\ celebrated' = [celebrationType |-> celebrationType,
                           description |-> description]
         /\ UNCHANGED sunoVars

\* triggerCelebration: nothing when celebrations are switched off; else note
\* the time, call generateCelebration (generateMusic with the celebration's
\* parameters) and notify.
triggerCelebration(celebrationType, description) ==
    IF ~celebrationsOn
    THEN UNCHANGED <<lastCelebrationTime, celebrated, sunoVars>>
    ELSE /\ lastCelebrationTime' = clock
         /\ celebrated' = [celebrationType |-> celebrationType,
                           description |-> description]
         /\ CallGenerateMusic(getCelebrationParameters(celebrationType))

\* detectSuccess, as far as the detector and the client go.
DetectSuccessCall(event) ==
    /\ ~disposed
    /\ detections' = detections + 1
    /\ IF isInCooldown
       THEN /\ detected' = [event |-> event, cooldown |-> TRUE,
                         bestMatch |-> NoPattern, pattern |-> NoPattern]
            /\ UNCHANGED <<lastCelebrationTime, celebrated, sunoVars>>
       ELSE LET detectedPattern == Analyzed[event]
            IN  /\ detected' = [event |-> event, cooldown |-> FALSE,
                                 bestMatch |-> BestMatches[event],
                                 pattern |-> detectedPattern]
                /\ IF detectedPattern # NoPattern
                   THEN triggerCelebration(detectedPattern.celebrationType,
                                           detectedPattern.description)
                   ELSE UNCHANGED <<lastCelebrationTime, celebrated, sunoVars>>
    /\ UNCHANGED <<clock, celebrationsOn>>

detectSuccess(event) ==
    /\ DetectSuccessCall(event)
    /\ UNCHANGED <<generatorVars, laterVars>>

\* The codebeat.celebrateNow command.
ManualCelebration ==
    /\ ~disposed
    /\ triggerCelebration("compilation_success", "User triggered celebration")
    /\ UNCHANGED <<clock, celebrationsOn, detections, detected>>
    /\ UNCHANGED <<generatorVars, laterVars>>

\* The user changes codebeat.enabled or codebeat.celebrationDrops.
ToggleCelebrations ==
    /\ celebrationsOn' = ~celebrationsOn
    /\ UNCHANGED <<clock, lastCelebrationTime, detections, detected,
                   celebrated, sunoVars>>
    /\ UNCHANGED <<generatorVars, laterVars>>

\* Time passes.
Delays == {celebrationCooldown \div 2 - 1, celebrationCooldown \div 2}

Advance(delay) ==
    /\ clock' = clock + delay
    /\ UNCHANGED <<lastCelebrationTime, celebrationsOn, detections, detected,
                   celebrated, sunoVars>>
    /\ UNCHANGED <<generatorVars, laterVars>>

\* --------------------------------------------- MusicParameterGenerator

\* Energy and the stress multiplier are kept in tenths, so that the products
\* of getSizeModifier's multipliers are exact.
Max(a, b) == IF a >= b THEN a ELSE b

\* A Math.min that gives its second argument back whatever the first is.
MinRight(a, b) == b

Min(a, b) == IF a <= b THEN a ELSE b

\* randomInRange: any integer from min to max.
randomInRange(min, max) == min..max

\* complexityMappings of getBaseParameters.
complexityMappings ==
    [simple |->
         [bpm |-> <<50, 70>>, energy |-> <<1, 3>>,
          instruments |-> <<"soft piano", "ambient pad", "gentle strings",
                            "nature sounds">>,
          genre |-> "meditative ambient", tension |-> "minimal"],
     moderate |->
         [bpm |-> <<70, 95>>, energy |-> <<3, 5>>,
          instruments |-> <<"piano", "strings", "light percussion",
                            "soft synth">>,
          genre |-> "focused ambient", tension |-> "building"],
     complex |->
         [bpm |-> <<95, 130>>, energy |-> <<5, 8>>,
          instruments |-> <<"synth", "strings", "percussion", "bass",
                            "electronic beats">>,
          genre |-> "intense progressive", tension |-> "escalating"],
     very_complex |->
         [bpm |-> <<130, 180>>, energy |-> <<8, 10>>,
          instruments |-> <<"heavy orchestral", "industrial percussion",
                            "distorted synth", "intense bass",
                            "urgent strings">>,
          genre |-> "high-stress cinematic", tension |-> "overwhelming"]]

\* Base parameters that always draw the tempo and the energy from the
\* mapping's ranges.
getBaseParametersDrawn(a) ==
    LET mapping == complexityMappings[a.complexity]
    IN  {[bpm |-> b, mood |-> a.mood,
          genre |-> IF a.genre # "" THEN a.genre ELSE mapping.genre,
          energy |-> e * 10, complexity |-> a.complexity,
          instruments |-> mapping.instruments, duration |-> 60,
          tags |-> <<a.codeType, a.complexity, a.mood, mapping.tension>>,
          prompt |-> <<>>] :
             b \in randomInRange(mapping.bpm[1], mapping.bpm[2]),
             e \in randomInRange(mapping.energy[1], mapping.energy[2])}

\* getBaseParameters: the records it can return (one per random draw); a
\* recommendedBPM, energy or genre that is 0 or "" gives way to the mapping.
getBaseParameters(a) ==
    LET mapping == complexityMappings[a.complexity]
        bpms == IF a.recommendedBPM # 0 THEN {a.recommendedBPM}
                ELSE randomInRange(mapping.bpm[1], mapping.bpm[2])
        energies == IF a.energy # 0 THEN {a.energy}
                    ELSE randomInRange(mapping.energy[1], mapping.energy[2])
    IN  {[bpm |-> b, mood |-> a.mood,
          genre |-> IF a.genre # "" THEN a.genre ELSE mapping.genre,
          energy |-> e * 10, complexity |-> a.complexity,
          instruments |-> mapping.instruments, duration |-> 60,
          tags |-> <<a.codeType, a.complexity, a.mood, mapping.tension>>,
          prompt |-> <<>>] : b \in bpms, e \in energies}

\* A size modifier whose largest bucket falls back to the smallest values.
getSizeModifierDip(n) ==
    IF n < 500
    THEN [bpmAdjustment |-> 0, energyAdjustment |-> 0, duration |-> 40,
          stressMultiplier |-> 9]
    ELSE [bpmAdjustment |-> -15, energyAdjustment |-> -1, duration |-> 25,
          stressMultiplier |-> 6]

\* A size modifier whose bounds are inclusive: a count equal to a bound
\* stays in the lower bucket.
getSizeModifierInclusive(n) ==
    IF n <= 25
    THEN [bpmAdjustment |-> -15, energyAdjustment |-> -1, duration |-> 25,
          stressMultiplier |-> 6]
    ELSE IF n <= 50
    THEN [bpmAdjustment |-> 0, energyAdjustment |-> 0, duration |-> 40,
          stressMultiplier |-> 9]
    ELSE IF n <= 100
    THEN [bpmAdjustment |-> 20, energyAdjustment |-> 2, duration |-> 60,
          stressMultiplier |-> 14]
    ELSE IF n <= 150
    THEN [bpmAdjustment |-> 35, energyAdjustment |-> 3, duration |-> 75,
          stressMultiplier |-> 18]
    ELSE IF n <= 300
    THEN [bpmAdjustment |-> 50, energyAdjustment |-> 4, duration |-> 90,
          stressMultiplier |-> 22]
    ELSE IF n <= 500
    THEN [bpmAdjustment |-> 70, energyAdjustment |-> 5, duration |-> 120,
          stressMultiplier |-> 27]
    ELSE [bpmAdjustment |-> 90, energyAdjustment |-> 6, duration |-> 150,
          stressMultiplier |-> 30]

\* getSizeModifier (stressMultiplier in tenths).
getSizeModifier(n) ==
    IF n < 25
    THEN [bpmAdjustment |-> -15, energyAdjustment |-> -1, duration |-> 25,
          stressMultiplier |-> 6]
    ELSE IF n < 50
    THEN [bpmAdjustment |-> 0, energyAdjustment |-> 0, duration |-> 40,
          stressMultiplier |-> 9]
    ELSE IF n < 100
    THEN [bpmAdjustment |-> 20, energyAdjustment |-> 2, duration |-> 60,
          stressMultiplier |-> 14]
    ELSE IF n < 150
    THEN [bpmAdjustment |-> 35, energyAdjustment |-> 3, duration |-> 75,
          stressMultiplier |-> 18]
    ELSE IF n < 300
    THEN [bpmAdjustment |-> 50, energyAdjustment |-> 4, duration |-> 90,
          stressMultiplier |-> 22]
    ELSE IF n < 500
    THEN [bpmAdjustment |-> 70, energyAdjustment |-> 5, duration |-> 120,
          stressMultiplier |-> 27]
    ELSE [bpmAdjustment |-> 90, energyAdjustment |-> 6, duration |-> 150,
          stressMultiplier |-> 30]

\* languageModifications of applyContextualModifications: the genre and the
\* instruments a language overrides, and its bpm / energy where it has one.
LanguageGenres ==
    [javascript |-> "modern electronic", typescript |-> "structured electronic",
     python |-> "algorithmic ambient", java |-> "enterprise orchestral",
     cpp |-> "intense technical", rust |-> "modern technical",
     html |-> "structural ambient", css |-> "design ambient",
     sql |-> "data ambient"]

LanguageInstruments ==
    [javascript |-> <<"synth", "electronic beats", "ambient pad">>,
     typescript |-> <<"piano", "synth", "strings">>,
     python |-> <<"piano", "strings", "subtle percussion">>,
     java |-> <<"orchestral", "brass", "strings">>,
     cpp |-> <<"orchestral", "electronic", "heavy percussion">>,
     rust |-> <<"electronic", "orchestral hybrid", "percussion">>,
     html |-> <<"piano", "soft strings", "ambient pad">>,
     css |-> <<"piano", "ambient pad", "soft synth">>,
     sql |-> <<"piano", "strings", "minimal percussion">>]

\* The two tags each entry of languageModifications appends to its copy of
\* the tags.
LanguageTags ==
    [javascript |-> <<"frontend", "dynamic">>,
     typescript |-> <<"typed", "structured">>,
     python |-> <<"algorithmic", "clean">>,
     java |-> <<"enterprise", "robust">>,
     cpp |-> <<"performance", "technical">>,
     rust |-> <<"safe", "fast">>,
     html |-> <<"markup", "structure">>,
     css |-> <<"design", "visual">>,
     sql |-> <<"data", "query">>]

KnownLanguage(language) == language \in DOMAIN LanguageGenres

\* A base tempo that takes the sql override for every language.
BaseBpmSql(params, language) == Max(params.bpm - 10, 60)

\* langMods.bpm || params.bpm
BaseBpm(params, language) ==
    IF language = "sql" /\ Max(params.bpm - 10, 60) # 0
    THEN Max(params.bpm - 10, 60)
    ELSE params.bpm

\* langMods.energy || params.energy
BaseEnergy(params, language) ==
    IF language \in {"cpp", "rust"} /\ Min(params.energy + 10, 100) # 0
    THEN Min(params.energy + 10, 100)
    ELSE params.energy

LinesTag(n) == ToString(n) \o "_lines"

\* An escalation that stops at the instruments of long files.
StressInstrumentsLong(n) ==
    IF n < 50 THEN <<>> ELSE <<"urgent percussion", "building tension">>

\* The instruments and genre prefixes long files get.
StressInstruments(n) ==
    IF n < 50 THEN <<>>
    ELSE <<"urgent percussion", "building tension">>
         \o (IF n < 150 THEN <<>>
             ELSE <<"rapid percussion", "tense strings",
                    "escalating intensity">>
                  \o (IF n < 300 THEN <<>>
                      ELSE <<"dissonant harmonies", "urgent brass",
                             "overwhelming orchestral">>))

\* A genre that is prefixed only from 300 lines on.
StressGenreLate(genre, n) ==
    IF n >= 300 THEN "overwhelming " \o ("high-tension " \o genre) ELSE genre

StressGenre(genre, n) ==
    IF n >= 300 THEN "overwhelming " \o ("high-tension " \o genre)
    ELSE IF n >= 150 THEN "high-tension " \o genre
    ELSE genre

applyContextualModifications(params, language, n) ==
    LET modifier == getSizeModifier(n)
        adjustedBpm ==
            Max(40, Min(200, BaseBpm(params, language) + modifier.bpmAdjustment))
        adjustedEnergy ==
            Max(10, Min(100, ((BaseEnergy(params, language)
                                + modifier.energyAdjustment * 10)
                               * modifier.stressMultiplier) \div 10))
        baseInstruments ==
            IF KnownLanguage(language) THEN LanguageInstruments[language]
            ELSE params.instruments
        baseGenre ==
            IF KnownLanguage(language) THEN LanguageGenres[language]
            ELSE params.genre
    IN  [params EXCEPT
             !.bpm = adjustedBpm,
             !.energy = adjustedEnergy,
             !.duration = modifier.duration,
             !.instruments = baseInstruments \o StressInstruments(n),
             !.genre = StressGenre(baseGenre, n),
             !.tags = params.tags \o
                      <<LinesTag(n),
                        IF modifier.stressMultiplier > 12 THEN "high_stress"
                        ELSE "manageable">>]

\* tag.split('_')[0]: the tag up to its first underscore.
RECURSIVE FirstField(_)
FirstField(tag) ==
    IF tag = "" \/ CharAt(tag, 1) = "_" THEN ""
    ELSE CharAt(tag, 1) \o FirstField(SubSeq(tag, 2, Len(tag)))

DigitValue(c) == (CHOOSE i \in 1..10 : CharAt("0123456789", i) = c) - 1

\* parseInt on the leading digits of text, given the value read so far; a
\* text that starts with no digit gives NaN, kept as -1 (it is only ever
\* compared with >=, which NaN fails).
RECURSIVE ParseDigits(_, _)
ParseDigits(text, value) ==
    IF text = "" \/ CharAt(text, 1) \notin Digits THEN value
    ELSE ParseDigits(SubSeq(text, 2, Len(text)),
                     (IF value < 0 THEN 0 ELSE value * 10)
                         + DigitValue(CharAt(text, 1)))

parseInt(text) == ParseDigits(text, -1)

SeqHas(seq, x) == \E i \in 1..Len(seq) : seq[i] = x

\* tags.some(tag => tag.includes('_lines') && parseInt(tag.split('_')[0]) >= n)
HasLinesTag(tags, n) ==
    \E i \in 1..Len(tags) :
        /\ Includes(tags[i], "_lines")
        /\ parseInt(FirstField(tags[i])) >= n

KeyInstrumentWords == {"percussion", "strings", "brass", "orchestral", "piano"}

IsKeyInstrument(instrument) ==
    \E word \in KeyInstrumentWords : Includes(instrument, word)

FirstFour(seq) == SubSeq(seq, 1, Min(4, Len(seq)))

getKeyInstruments(instruments, isHighStress) ==
    IF isHighStress THEN FirstFour(SelectSeq(instruments, IsKeyInstrument))
    ELSE FirstFour(instruments)

\* A rendering that cuts the request's own instrument list down to the key
\* instruments it names in the prompt.
generatePromptInPlace(params) ==
    [params EXCEPT
         !.instruments = getKeyInstruments(params.instruments, TRUE),
         !.prompt = <<[clause |-> "Instruments",
                       instruments |->
                           getKeyInstruments(params.instruments, TRUE)]>>]

\* generatePrompt: the prompt by its clauses, in the order they are appended.
generatePrompt(params) ==
    LET isHighStress == SeqHas(params.tags, "high_stress")
        hasLongFile == HasLinesTag(params.tags, 50)
        hasVeryLongFile == HasLinesTag(params.tags, 150)
        isComplexOrHigher == params.complexity \in {"complex", "very_complex"}
        isVeryComplex == params.complexity = "very_complex"
    IN  [params EXCEPT !.prompt =
           <<[clause |-> "genre", genre |-> params.genre, bpm |-> params.bpm,
              mood |-> params.mood],
             [clause |->
                  IF isHighStress \/ hasVeryLongFile \/ isVeryComplex
                  THEN "URGENT, overwhelming stress. "
                  ELSE IF hasLongFile \/ isComplexOrHigher
                  THEN "Building tension and stress. "
                  ELSE IF params.bpm < 70 THEN "Calm and peaceful. "
                  ELSE ""],
             [clause |-> "Instruments",
              instruments |->
                  getKeyInstruments(params.instruments,
                                    isHighStress \/ hasVeryLongFile)],
             [clause |->
                  IF isVeryComplex \/ isHighStress \/ hasVeryLongFile
                  THEN "Overwhelming complexity. "
                  ELSE IF isComplexOrHigher \/ hasLongFile
                  THEN "Mounting tension. "
                  ELSE IF params.complexity = "simple" /\ ~hasLongFile
                  THEN "Simple and gentle. "
                  ELSE ""],
             [clause |-> "Energy", energy |-> params.energy,
              duration |-> params.duration]>>]

\* generateFromAnalysis: the requests it can return.
generateFromAnalysis(a, language, n) ==
    {generatePrompt(applyContextualModifications(baseParams, language, n)) :
         baseParams \in getBaseParameters(a)}

\* The documents and analyses the code monitor passes in.
Languages == DOMAIN LanguageGenres \cup {"plaintext"}

sizeBounds == <<25, 50, 100, 150, 300, 500>>

LineCounts ==
    {0, 10, 400, MaxLineCount}
    \cup UNION {{sizeBounds[i] - 1, sizeBounds[i]} : i \in 1..Len(sizeBounds)}

Complexities == DOMAIN complexityMappings

\* Analyses that name a tempo, an energy and a genre, and analyses that
\* leave all three unset (0 and "").
CodeAnalyses ==
    [complexity : Complexities, mood : {"focused"}, codeType : {"algorithm"},
     recommendedBPM : {60, 140}, energy : {1, 10}, genre : {"lofi"}]
    \cup [complexity : Complexities, mood : {"focused"},
          codeType : {"algorithm"}, recommendedBPM : {0}, energy : {0},
          genre : {""}]

NoAnalysis == [complexity |-> "none"]
NoParams == [prompt |-> <<>>]
NoSizeModifier == [duration |-> 0]

\* The document's language mode is changed: nothing is analysed or
\* generated for it yet.
ChangeLanguage(language) ==
    /\ languageId' = language
    /\ analysis' = NoAnalysis
    /\ sizeModifier' = NoSizeModifier
    /\ contextualParams' = NoParams
    /\ musicParams' = NoParams
    /\ UNCHANGED lineCount
    /\ UNCHANGED <<sunoVars, detectorVars, laterVars>>

\* The document is edited to n lines.
EditDocument(n) ==
    /\ lineCount' = n
    /\ analysis' = NoAnalysis
    /\ sizeModifier' = NoSizeModifier
    /\ contextualParams' = NoParams
    /\ musicParams' = NoParams
    /\ UNCHANGED languageId
    /\ UNCHANGED <<sunoVars, detectorVars, laterVars>>

\* The analyser returns its CodeAnalysis of the document (content that has
\* been analysed is not analysed again).
AnalysisArrives(a) ==
    /\ analysis = NoAnalysis
    /\ analysis' = a
    /\ sizeModifier' = NoSizeModifier
    /\ contextualParams' = NoParams
    /\ musicParams' = NoParams
    /\ UNCHANGED <<languageId, lineCount>>
    /\ UNCHANGED <<sunoVars, detectorVars, laterVars>>

\* generateFromAnalysis is applied to the analysis and the document (once
\* for each analysis that arrives): baseParams, contextualParams and the
\* finalParams it returns.
GenerateFromAnalysis ==
    /\ analysis # NoAnalysis
    /\ musicParams = NoParams
    /\ \E baseParams \in getBaseParameters(analysis) :
       \E contextual \in {applyContextualModifications(baseParams, languageId,
                                                       lineCount)} :
           /\ contextualParams' = contextual
           /\ musicParams' = generatePrompt(contextual)
    /\ sizeModifier' = getSizeModifier(lineCount)
    /\ UNCHANGED <<languageId, lineCount, analysis>>
    /\ UNCHANGED <<sunoVars, detectorVars, laterVars>>

\* ------------------------------- generateFromDiagnostics, DiagnosticTracker

\* previousErrorCount when there is no previous summary.
Undefined == -1

\* errorCount + warningCount * 0.5, in halves.
totalIssues(errorCount, warningCount) == 2 * errorCount + warningCount

\* A severity decided by totalIssues alone.
calculateSeverityByTotal(errorCount, warningCount) ==
    IF totalIssues(errorCount, warningCount) >= 30 THEN "critical"
    ELSE IF totalIssues(errorCount, warningCount) >= 20 THEN "high"
    ELSE IF totalIssues(errorCount, warningCount) >= 10 THEN "medium"
    ELSE "low"

calculateDiagnosticSeverity(errorCount, warningCount) ==
    IF errorCount >= 10 \/ totalIssues(errorCount, warningCount) >= 30
    THEN "critical"
    ELSE IF errorCount >= 5 \/ totalIssues(errorCount, warningCount) >= 20
    THEN "high"
    ELSE IF errorCount >= 2 \/ totalIssues(errorCount, warningCount) >= 10
    THEN "medium"
    ELSE "low"

\* An improvement test that also passes an unchanged error count.
isImprovingOrEqual(errorCount, previousErrorCount) ==
    previousErrorCount # Undefined /\ errorCount <= previousErrorCount

isImproving(errorCount, previousErrorCount) ==
    previousErrorCount # Undefined /\ errorCount < previousErrorCount

\* A severity table whose critical row is missing: critical gets the high
\* row.
severityMappingsNoCritical ==
    [s \in {"low", "medium", "high", "critical"} |->
        [bpm |-> IF s = "low" THEN 85 ELSE IF s = "medium" THEN 75 ELSE 65,
         mood |-> "troubled", genre |-> "dark ambient",
         energy |-> IF s = "low" THEN 40 ELSE IF s = "medium" THEN 30 ELSE 20,
         instruments |-> <<"low piano", "dark strings", "minor keys">>,
         tags |-> <<"serious issues", "debugging needed">>]]

\* severityMappings of applyDiagnosticModifications (energy in tenths).
severityMappings ==
    [low |-> [bpm |-> 85, mood |-> "contemplative",
              genre |-> "thoughtful ambient", energy |-> 40,
              instruments |-> <<"piano", "soft strings">>,
              tags |-> <<"minor issues", "fixable">>],
     medium |-> [bpm |-> 75, mood |-> "concerned", genre |-> "tense ambient",
                 energy |-> 30,
                 instruments |-> <<"piano", "strings", "subtle dissonance">>,
                 tags |-> <<"needs attention", "moderate issues">>],
     high |-> [bpm |-> 65, mood |-> "troubled", genre |-> "dark ambient",
               energy |-> 20,
               instruments |-> <<"low piano", "dark strings", "minor keys">>,
               tags |-> <<"serious issues", "debugging needed">>],
     critical |-> [bpm |-> 55, mood |-> "urgent", genre |-> "ominous ambient",
                   energy |-> 10,
                   instruments |-> <<"discordant piano", "tense strings",
                                     "stuttering rhythm">>,
                   tags |-> <<"critical errors", "immediate attention">>]]

applyDiagnosticModifications(baseParams, severity, errorCount, warningCount) ==
    LET mapping == severityMappings[severity]
    IN  [bpm |-> mapping.bpm, mood |-> mapping.mood, genre |-> mapping.genre,
         energy |-> mapping.energy, complexity |-> severity,
         instruments |-> mapping.instruments,
         duration |-> baseParams.duration,
         tags |-> mapping.tags \o <<ToString(errorCount) \o "_errors",
                                    ToString(warningCount) \o "_warnings">>,
         prompt |-> <<>>]

\* The parameters of the improving branch.
HopefulParams(baseParams) ==
    [bpm |-> 95, mood |-> "hopeful", genre |-> "uplifting ambient",
     energy |-> 60, complexity |-> "moderate",
     instruments |-> <<"piano", "strings", "soft synth">>,
     duration |-> baseParams.duration,
     tags |-> <<"improvement", "progress", "healing">>, prompt |-> <<>>]

generateFromDiagnostics(errorCount, warningCount, previousErrorCount) ==
    LET severity == calculateDiagnosticSeverity(errorCount, warningCount)
        baseParams == [duration |-> 30]
    IN  generatePrompt(
            IF isImproving(errorCount, previousErrorCount)
            THEN HopefulParams(baseParams)
            ELSE applyDiagnosticModifications(baseParams, severity,
                                              errorCount, warningCount))

\* The counts a document's diagnostics come to, and what
\* generateFromDiagnostics returns for each call the tracker can make.
ErrorCounts == 0..MaxErrorCount
WarningCounts == 0..MaxWarningCount

Diagnosed ==
    [errorCount \in ErrorCounts |->
        [warningCount \in WarningCounts |->
            [previousErrorCount \in Undefined..MaxErrorCount |->
                generateFromDiagnostics(errorCount, warningCount,
                                        previousErrorCount)]]]

NoSummary == [errorCount |-> Undefined]
NoDiagnosis == [errorCount |-> Undefined]

\* previous?.errorCount
ErrorCountOf(summary) == summary.errorCount

\* hasImproved: fewer errors, or as many errors and fewer warnings.
hasImproved(previous, current) ==
    /\ previous # NoSummary
    /\ \/ current.errorCount < previous.errorCount
       \/ /\ current.errorCount = previous.errorCount
          /\ current.warningCount < previous.warningCount

\* checkForCelebrationTrigger: a bug_fix celebration when the errors drop to
\* zero, a progress message when three or more are resolved.
checkForCelebrationTrigger(previous, current) ==
    IF previous.errorCount > 0 /\ current.errorCount = 0 THEN "bug_fix"
    ELSE IF previous.errorCount - current.errorCount >= 3 THEN "progress"
    ELSE "none"

\* updateDiagnosticSummary, as far as the tracker and the generator go: the
\* diagnostics of the active document are counted, music parameters are
\* generated from the counts and the previous summary's error count if the
\* extension is enabled, an improvement is checked for a celebration, and
\* the new summary becomes the last one.
DiagnosticSummaryUpdate(errorCount, warningCount) ==
    LET previousErrorCount == ErrorCountOf(lastDiagnosticSummary)
        newSummary ==
            [errorCount |-> errorCount, warningCount |-> warningCount]
    IN  /\ diagnosed' =
               [errorCount |-> errorCount, warningCount |-> warningCount,
                previousErrorCount |-> previousErrorCount,
                isImproving |-> isImproving(errorCount, previousErrorCount),
                severity |->
                    calculateDiagnosticSeverity(errorCount, warningCount),
                celebration |->
                    IF hasImproved(lastDiagnosticSummary, newSummary)
                    THEN checkForCelebrationTrigger(lastDiagnosticSummary,
                                                    newSummary)
                    ELSE "none"]
        /\ diagnosticParams' =
               IF configEnabled
               THEN Diagnosed[errorCount][warningCount][previousErrorCount]
               ELSE diagnosticParams
        /\ lastDiagnosticSummary' = newSummary

\* updateDiagnosticSummary up to its calls of the client.
UpdateDiagnosticSummary(errorCount, warningCount) ==
    /\ DiagnosticSummaryUpdate(errorCount, warningCount)
    /\ UNCHANGED <<sunoVars, detectorVars, generatorVars, tandemVars,
                   listenerVars, monitorVars, commandVars>>

\* ------------------------------------------------------ TandemApiClient

\* The values a field of the parsed JSON can hold, by their JavaScript type
\* and their text (what String(value) gives).
Str(text) == [type |-> "string", text |-> text]
Num(text) == [type |-> "number", text |-> text]
Missing == [type |-> "undefined", text |-> "undefined"]

\* valid.includes(value)
ValidIn(valid, value) == value.type = "string" /\ value.text \in valid

validComplexities == {"simple", "moderate", "complex", "very_complex"}
validMoods == {"calm", "focused", "energetic", "intense"}
validCodeTypes ==
    {"algorithm", "data_structure", "ui_frontend", "backend_api", "utility",
     "test"}

validateComplexity(complexity) ==
    IF ValidIn(validComplexities, complexity) THEN complexity.text
    ELSE "moderate"

validateMood(mood) == IF ValidIn(validMoods, mood) THEN mood.text ELSE "focused"

validateCodeType(codeType) ==
    IF ValidIn(validCodeTypes, codeType) THEN codeType.text ELSE "utility"

validateBPM(bpm) ==
    IF parseInt(bpm.text) < 0 \/ parseInt(bpm.text) < 60
          \/ parseInt(bpm.text) > 140
    THEN 90
    ELSE parseInt(bpm.text)

validateEnergy(energy) ==
    IF parseInt(energy.text) < 0 \/ parseInt(energy.text) < 1
          \/ parseInt(energy.text) > 10
    THEN 5
    ELSE parseInt(energy.text)

\* JavaScript truthiness of a field's value.
Truthy(value) ==
    \/ value.type = "string" /\ value.text # ""
    \/ value.type = "number" /\ value.text \notin {"0", "NaN"}

\* languageDefaults of createFallbackAnalysis.
languageDefaults ==
    [javascript |-> [codeType |-> "ui_frontend", recommendedBPM |-> 120,
                     energy |-> 7, mood |-> "energetic"],
     typescript |-> [codeType |-> "ui_frontend", recommendedBPM |-> 115,
                     energy |-> 7, mood |-> "energetic"],
     react |-> [codeType |-> "ui_frontend", recommendedBPM |-> 125,
                energy |-> 8, mood |-> "energetic"],
     html |-> [codeType |-> "ui_frontend", recommendedBPM |-> 110,
               energy |-> 6, mood |-> "focused"],
     css |-> [codeType |-> "ui_frontend", recommendedBPM |-> 100,
              energy |-> 5, mood |-> "calm"],
     python |-> [codeType |-> "algorithm", recommendedBPM |-> 95,
                 energy |-> 6, mood |-> "focused"],
     java |-> [codeType |-> "backend_api", recommendedBPM |-> 90,
               energy |-> 5, mood |-> "focused"],
     cpp |-> [codeType |-> "algorithm", recommendedBPM |-> 100,
              energy |-> 7, mood |-> "intense"],
     c |-> [codeType |-> "algorithm", recommendedBPM |-> 95, energy |-> 6,
            mood |-> "focused"],
     go |-> [codeType |-> "backend_api", recommendedBPM |-> 85, energy |-> 5,
             mood |-> "focused"],
     rust |-> [codeType |-> "algorithm", recommendedBPM |-> 105,
               energy |-> 7, mood |-> "intense"],
     sql |-> [codeType |-> "data_structure", recommendedBPM |-> 80,
              energy |-> 4, mood |-> "calm"],
     json |-> [codeType |-> "utility", recommendedBPM |-> 70, energy |-> 3,
               mood |-> "calm"]]

createFallbackAnalysis(language) ==
    LET defaults ==
            IF language \in DOMAIN languageDefaults
            THEN languageDefaults[language]
            ELSE [codeType |-> "utility", recommendedBPM |-> 90,
                  energy |-> 5, mood |-> "focused"]
    IN  [complexity |-> "moderate", mood |-> defaults.mood,
         codeType |-> defaults.codeType,
         recommendedBPM |-> defaults.recommendedBPM,
         energy |-> defaults.energy, genre |-> Str("ambient")]

\* parseAnalysisResponse: a text with no JSON object in it, or one
\* JSON.parse rejects, gives the fallback; a parsed object is validated field
\* by field.
parseAnalysisResponse(text, language) ==
    IF text.kind # "json" THEN createFallbackAnalysis(language)
    ELSE [complexity |-> validateComplexity(text.parsed.complexity),
          mood |-> validateMood(text.parsed.mood),
          codeType |-> validateCodeType(text.parsed.codeType),
          recommendedBPM |-> validateBPM(text.parsed.recommendedBPM),
          energy |-> validateEnergy(text.parsed.energy),
          genre |-> IF Truthy(text.parsed.genre) THEN text.parsed.genre
                    ELSE Str("ambient")]

\* The objects the service's text can parse to: each field valid, invalid or
\* missing, the numbers on both sides of their limits.
ParsedResponses ==
    [complexity : {Str("simple"), Str("extreme")},
     mood : {Str("calm"), Missing},
     codeType : {Str("test"), Num("7")},
     recommendedBPM : {Num("59"), Num("60"), Num("140"), Num("141"),
                       Str("fast")},
     energy : {Num("0"), Num("1"), Str("10"), Num("11")},
     genre : {Str("jazz"), Str(""), Num("42")}]

AnalysisTexts ==
    {[kind |-> "no_json"], [kind |-> "bad_json"]}
    \cup {[kind |-> "json", parsed |-> parsed] : parsed \in ParsedResponses}

ParsedLanguages == {"python", "plaintext"}

NoText == [kind |-> "none"]

\* parseAnalysisResponse is applied to a response text.
ParseAnalysisResponse(text, language) ==
    /\ analysisText' = text
    /\ parsedLanguage' = language
    /\ parsedAnalysis' = parseAnalysisResponse(text, language)
    /\ UNCHANGED <<sunoVars, detectorVars, generatorVars, diagnosticVars,
                   listenerVars, monitorVars,
                   commandVars>>

\* ------------------------------------------------------ TerminalListener

\* A task process that ended without an exit code has exitCode undefined.
TaskExitCodes == {0, 1, Undefined}
TaskCommands == EndedTaskCommands

\* A test that takes every ended task process for a success.
AnyExitCode(exitCode) == TRUE

\* exitCode === 0
TaskSucceeded(exitCode) == exitCode = 0

\* eventType of onTaskProcessEnd.
TaskEventType(exitCode) ==
    IF TaskSucceeded(exitCode) THEN "success" ELSE "error"

\* The TerminalEvent's message.
TaskMessage(taskName, exitCode) ==
    "Task " \o taskName
        \o (IF TaskSucceeded(exitCode) THEN " succeeded" ELSE " failed")

\* The success event processTerminalEvent passes on for a terminal event.
TerminalOutputEvent(message) ==
    [type |-> "terminal_output", details |-> [message |-> message]]

TaskSuccessEvent(taskName, command, exitCode) ==
    [type |-> "task_success",
     details |-> [taskName |-> taskName, command |-> command,
                  exitCode |-> exitCode]]

NoTask == [taskName |-> "", command |-> "", exitCode |-> Undefined]

StartListening ==
    /\ ~isListening
    /\ isListening' = TRUE
    /\ UNCHANGED <<taskEnds, taskEnded, pendingTask>>
    /\ UNCHANGED <<sunoVars, detectorVars, generatorVars, diagnosticVars,
                   tandemVars, monitorVars,
                   commandVars>>

StopListening ==
    /\ isListening
    /\ pendingTask = NoEvent
    /\ isListening' = FALSE
    /\ UNCHANGED <<taskEnds, taskEnded, pendingTask>>
    /\ UNCHANGED <<sunoVars, detectorVars, generatorVars, diagnosticVars,
                   tandemVars, monitorVars,
                   commandVars>>

\* onTaskProcessEnd up to the end of processTerminalEvent: the terminal
\* event is built from the exit code and, when its type is success, passed
\* to detectSuccess as terminal output; a task that exited with 0 has its
\* task_success event still to come.
OnTaskProcessEnd(taskName, command, exitCode) ==
    /\ isListening
    /\ pendingTask = NoEvent
    /\ taskEnds' = taskEnds + 1
    /\ taskEnded' = [taskName |-> taskName, command |-> command,
                     exitCode |-> exitCode]
    /\ IF TaskEventType(exitCode) = "success"
       THEN DetectSuccessCall(
                TerminalOutputEvent(TaskMessage(taskName, exitCode)))
       ELSE UNCHANGED <<detectorVars, sunoVars>>
    /\ pendingTask' = IF TaskSucceeded(exitCode)
                      THEN TaskSuccessEvent(taskName, command, exitCode)
                      ELSE NoEvent
    /\ UNCHANGED isListening
    /\ UNCHANGED <<generatorVars, diagnosticVars, tandemVars,
                   monitorVars,
                   commandVars>>

\* The rest of onTaskProcessEnd for exit code 0: the task_success event is
\* passed to detectSuccess.
OnTaskProcessEndSuccess ==
    /\ pendingTask # NoEvent
    /\ DetectSuccessCall(pendingTask)
    /\ pendingTask' = NoEvent
    /\ UNCHANGED <<isListening, taskEnds, taskEnded>>
    /\ UNCHANGED <<generatorVars, diagnosticVars, tandemVars,
                   monitorVars,
                   commandVars>>

\* ---------------------------------------------------------- CodeMonitor

\* String.prototype.trim, for texts whose only white space is blanks.
RECURSIVE TrimStart(_)
TrimStart(text) ==
    IF text # "" /\ CharAt(text, 1) = " "
    THEN TrimStart(SubSeq(text, 2, Len(text)))
    ELSE text

RECURSIVE TrimEnd(_)
TrimEnd(text) ==
    IF text # "" /\ CharAt(text, Len(text)) = " "
    THEN TrimEnd(SubSeq(text, 1, Len(text) - 1))
    ELSE text

Trim(text) == TrimEnd(TrimStart(text))

\* content.split('\n').length, the texts here separating lines by ";".
LineBreak == ";"
SplitLength(text) ==
    1 + Cardinality({i \in 1..Len(text) : CharAt(text, i) = LineBreak})

\* The texts of the document: a statement followed by blanks, and two
\* function definitions.
TextBlank ==
    "x = 1                                                     "
TextA == "def total(items):;    return sum(i.price for i in items);"
TextB == "def count(items):;    return len([i for i in items if i]);"
Contents == {TextBlank, TextA, TextB}

\* content.trim().length < 50
TooSmall(content) == Len(Trim(content)) < minContentLength

\* What the fetch of analyzeCode ends in: it throws, the response is not
\* OK, its JSON has no choices[0].message, or it carries a text.
ServiceFailures == {"network_error", "not_ok", "bad_envelope"}

MonitorTexts ==
    {[kind |-> "no_json"], [kind |-> "bad_json"],
     [kind |-> "json",
      parsed |-> [complexity |-> Str("simple"), mood |-> Str("calm"),
                  codeType |-> Str("test"), recommendedBPM |-> Num("60"),
                  energy |-> Num("1"), genre |-> Str("jazz")]]}

ServiceResponses ==
    {[kind |-> kind] : kind \in ServiceFailures}
    \cup {[kind |-> "ok", text |-> text] : text \in MonitorTexts}

\* document.languageId of the monitored document.
MonitoredLanguages == {"python"}

Null == [complexity |-> "null"]

\* analyzeCode: every failure before parseAnalysisResponse is caught, shown
\* to the user as an error message, and answered with null.
analyzeCode(response, language) ==
    IF response.kind = "ok"
    THEN parseAnalysisResponse(response.text, language)
    ELSE Null

ShowsErrorMessage(response) == response.kind # "ok"

\* The CodeAnalysis as getBaseParameters reads it, its genre a string.
AnalysisRead(codeAnalysis) ==
    [codeAnalysis EXCEPT !.genre = codeAnalysis.genre.text]

NoRun == [response |-> [kind |-> "none"]]

\* A timer set that clearTimeout leaves as it was.
KeepTimeout(pending, timer) == pending

\* clearTimeout(this.analysisTimer)
ClearTimeout(pending, timer) == pending \ {timer}

\* scheduleAnalysis: the timer analysisTimer names is cleared, and a new
\* one is set to fire analysisSensitivity ms from now.
ScheduleAnalysis ==
    /\ timers' = ClearTimeout(timers, analysisTimer)
                     \cup {timerClock + analysisSensitivity}
    /\ analysisTimer' = timerClock + analysisSensitivity

\* startMonitoring, as far as the monitor goes.
StartMonitoringCall ==
    IF isMonitoring
    THEN UNCHANGED monitorVars
    ELSE /\ isMonitoring' = TRUE
         /\ IF activeTextEditor
            THEN ScheduleAnalysis
            ELSE UNCHANGED <<timers, analysisTimer>>
         /\ UNCHANGED <<activeTextEditor, documentText, timerClock, lastEdit,
                        lastAnalyzedContent, runs, lastRun>>

\* startMonitoring of a monitor that is not monitoring.
StartMonitoring ==
    /\ ~isMonitoring
    /\ StartMonitoringCall
    /\ UNCHANGED <<sunoVars, detectorVars, generatorVars, diagnosticVars,
                   tandemVars, listenerVars,
                   commandVars>>

\* stopMonitoring, with the dispose it ends in, as far as the monitor goes.
StopMonitoringCall ==
    /\ isMonitoring' = FALSE
    /\ timers' = ClearTimeout(timers, analysisTimer)
    /\ analysisTimer' = Undefined
    /\ UNCHANGED <<activeTextEditor, documentText, timerClock, lastEdit,
                   lastAnalyzedContent, runs, lastRun>>

StopMonitoring ==
    /\ StopMonitoringCall
    /\ UNCHANGED <<sunoVars, detectorVars, generatorVars, diagnosticVars,
                   tandemVars, listenerVars,
                   commandVars>>

\* The active editor changes to the document's editor, or to none;
\* onActiveEditorChanged runs if the monitor is registered.
OnActiveEditorChanged(editor) ==
    /\ activeTextEditor' = editor
    /\ IF isMonitoring /\ editor
       THEN ScheduleAnalysis
       ELSE UNCHANGED <<timers, analysisTimer>>
    /\ UNCHANGED <<isMonitoring, documentText, timerClock, lastEdit,
                   lastAnalyzedContent, runs, lastRun>>
    /\ UNCHANGED <<sunoVars, detectorVars, generatorVars, diagnosticVars,
                   tandemVars, listenerVars,
                   commandVars>>

\* The document's text changes; onDocumentChanged runs if the monitor is
\* registered, and schedules if the document is the active editor's.
OnDocumentChanged(text) ==
    /\ text # documentText
    /\ documentText' = text
    /\ lastEdit' = IF activeTextEditor THEN timerClock ELSE lastEdit
    /\ IF isMonitoring /\ activeTextEditor
       THEN ScheduleAnalysis
       ELSE UNCHANGED <<timers, analysisTimer>>
    /\ UNCHANGED <<isMonitoring, activeTextEditor, timerClock,
                   lastAnalyzedContent, runs, lastRun>>
    /\ UNCHANGED <<sunoVars, detectorVars, generatorVars, diagnosticVars,
                   tandemVars, listenerVars,
                   commandVars>>

\* The event loop's clock moves on.
TimerDelays == {analysisSensitivity \div 2}

TimerAdvance(delay) ==
    /\ timerClock' = timerClock + delay
    /\ UNCHANGED <<isMonitoring, activeTextEditor, documentText, lastEdit,
                   timers, analysisTimer, lastAnalyzedContent, runs,
                   lastRun>>
    /\ UNCHANGED <<sunoVars, detectorVars, generatorVars, diagnosticVars,
                   tandemVars, listenerVars,
                   commandVars>>

\* A timer that is due fires: analyzeDocument up to its await of
\* analyzeCode. `enabled` is the setting codebeat.enabled as it is read now.
AnalyzeDocument(timer, enabled) ==
    /\ timer \in timers
    /\ timerClock >= timer
    /\ timers' = timers \ {timer}
    /\ IF enabled /\ documentText # lastAnalyzedContent
            /\ ~TooSmall(documentText)
       THEN /\ lastAnalyzedContent' = documentText
            /\ runs' = runs (+) SetToBag({[content |-> documentText]})
       ELSE UNCHANGED <<lastAnalyzedContent, runs>>
    /\ UNCHANGED <<isMonitoring, activeTextEditor, documentText, timerClock,
                   lastEdit, analysisTimer, lastRun>>
    /\ UNCHANGED <<sunoVars, detectorVars, generatorVars, diagnosticVars,
                   tandemVars, listenerVars,
                   commandVars>>

\* analyzeCode returns to an analyzeDocument call that awaits it: with a
\* CodeAnalysis the parameters are generated and handed to generateMusic,
\* with null nothing more is done. `language` is the document's languageId
\* the call read.
AnalyzeCodeReturns(run, language, response) ==
    /\ BagIn(run, runs)
    /\ runs' = runs (-) SetToBag({run})
    /\ \E codeAnalysis \in {analyzeCode(response, language)} :
           /\ lastRun' = [response |-> response, language |-> language,
                          codeAnalysis |-> codeAnalysis,
                          errorShown |-> ShowsErrorMessage(response),
                          submitted |-> codeAnalysis # Null]
           /\ IF codeAnalysis # Null
              THEN \E params \in generateFromAnalysis(
                                     AnalysisRead(codeAnalysis),
                                     language,
                                     SplitLength(run.content)) :
                       CallGenerateMusic(params)
              ELSE UNCHANGED sunoVars
    /\ UNCHANGED <<isMonitoring, activeTextEditor, documentText, timerClock,
                   lastEdit, timers, analysisTimer, lastAnalyzedContent>>
    /\ UNCHANGED <<detectorVars, generatorVars, diagnosticVars, tandemVars,
                   listenerVars,
                   commandVars>>

\* ------------------------------------------------------------- commands

\* The detector's state but the setting it reads.
detectorState == <<clock, lastCelebrationTime, detections, detected,
                   celebrated>>

\* codebeat.play: the setting is switched on and the monitor started.
\* celebrationDrops is taken at its default, true.
PlayCommand ==
    /\ configEnabled' = TRUE
    /\ celebrationsOn' = TRUE
    /\ StartMonitoringCall
    /\ UNCHANGED <<detectorState, sunoVars, generatorVars, diagnosticVars,
                   tandemVars, listenerVars>>

\* codebeat.stop: the setting is switched off and the monitor stopped.
StopCommand ==
    /\ configEnabled' = FALSE
    /\ celebrationsOn' = FALSE
    /\ StopMonitoringCall
    /\ UNCHANGED <<detectorState, sunoVars, generatorVars, diagnosticVars,
                   tandemVars, listenerVars>>

\* codebeat.toggle
ToggleCommand == IF configEnabled THEN StopCommand ELSE PlayCommand

RECURSIVE BagOfCalls(_)
BagOfCalls(calls) ==
    IF calls = <<>> THEN EmptyBag
    ELSE SetToBag({Head(calls)}) (+) BagOfCalls(Tail(calls))

\* generateMusic is called with each of these parameters in turn, none of
\* the calls awaited.
CallGenerateMusicEach(calls) ==
    /\ IF calls = <<>>
       THEN UNCHANGED <<submitting, requests, returned>>
       ELSE IF apiToken
       THEN /\ submitting' = submitting + Len(calls)
            /\ requests' = requests (+) BagOfCalls(calls)
            /\ UNCHANGED returned
       ELSE /\ returned' = ErrorResponse(calls[Len(calls)])
            /\ UNCHANGED <<submitting, requests>>
    /\ UNCHANGED <<apiToken, started, activePollingIntervals, pollCount,
                   lastStatus, remote, inflight, disposed>>
    /\ UNCHANGED <<playerVars, ghostVars>>

\* updateDiagnosticSummary with its calls of the client:
\* generateDiagnosticMusic hands the generated parameters to generateMusic
\* if the extension is enabled, and checkForCelebrationTrigger calls
\* generateCelebration when the errors dropped to zero.
UpdateDiagnosticSummaryPlaying(errorCount, warningCount) ==
    /\ activeTextEditor
    /\ DiagnosticSummaryUpdate(errorCount, warningCount)
    /\ CallGenerateMusicEach(
           (IF configEnabled THEN <<diagnosticParams'>> ELSE <<>>)
           \o (IF diagnosed'.celebration = "bug_fix"
               THEN <<getCelebrationParameters("bug_fix")>>
               ELSE <<>>))
    /\ UNCHANGED <<detectorVars, generatorVars, tandemVars, listenerVars,
                   monitorVars, commandVars>>

\* What happens while the commands are tried: the error counts the
\* diagnostics come to, the text typed, the analysis service's answers and
\* the task that ends.
CommandErrorCounts == {0, 3}
CommandTexts == {TextA}
CommandResponses ==
    {response \in ServiceResponses :
         \/ response.kind = "not_ok"
         \/ response.kind = "ok" /\ response.text.kind = "json"}
CommandEvents ==
    {[type |-> "terminal_output",
      details |-> [message |-> "All tests passed"]]}

\* ------------------------------------------------------ specification

Init ==
    /\ apiToken \in BOOLEAN
    /\ started = 0
    /\ submitting = 0
    /\ requests = EmptyBag
    /\ returned = NoResponse
    /\ activePollingIntervals = {}
    /\ pollCount = [j \in Jobs |-> 0]
    /\ lastStatus = [j \in Jobs |-> NoStatus]
    /\ remote = [j \in Jobs |-> NewClip]
    /\ inflight = EmptyBag
    /\ disposed = FALSE
    /\ audioProcess = "null"
    /\ isMuted = FALSE
    /\ currentUrl = NoUrl
    /\ playing = EmptyBag
    /\ orphans = 0
    /\ exitsPending = 0
    /\ played = [j \in Jobs |-> [k \in UrlKinds |-> 0]]
    /\ notes = [j \in Jobs |-> {}]
    /\ superseded = {}
    /\ clock = celebrationCooldown
    /\ lastCelebrationTime = 0
    /\ celebrationsOn = TRUE
    /\ detections = 0
    /\ detected = NoDecision
    /\ celebrated = NoCelebration
    /\ languageId = "plaintext"
    /\ lineCount = 0
    /\ analysis = NoAnalysis
    /\ sizeModifier = NoSizeModifier
    /\ contextualParams = NoParams
    /\ musicParams = NoParams
    /\ lastDiagnosticSummary = NoSummary
    /\ diagnosed = NoDiagnosis
    /\ diagnosticParams = NoParams
    /\ analysisText = NoText
    /\ parsedLanguage = "plaintext"
    /\ parsedAnalysis = NoAnalysis
    /\ isListening = FALSE
    /\ taskEnds = 0
    /\ taskEnded = NoTask
    /\ pendingTask = NoEvent
    /\ isMonitoring = FALSE
    /\ activeTextEditor = TRUE
    /\ documentText = TextBlank
    /\ timerClock = 0
    /\ lastEdit = Undefined
    /\ timers = {}
    /\ analysisTimer = Undefined
    /\ lastAnalyzedContent = ""
    /\ runs = EmptyBag
    /\ lastRun = NoRun
    /\ configEnabled = TRUE

\* Timer ticks fired so far, over all poll loops.
RECURSIVE TicksOf(_)
TicksOf(S) ==
    IF S = {} THEN 0
    ELSE LET j == CHOOSE x \in S : TRUE
         IN  pollCount[j] + TicksOf(S \ {j})

\* The client's steps, for at most `jobs` poll loops, `ticks` timer ticks in
\* all and `flights` status queries awaited at a time; with `quiet`, music
\* is generated only while the audio is muted.
ClientNext(quiet, jobs, ticks, flights) ==
    \/ /\ quiet => isMuted
       /\ submitting < MaxSubmits /\ started + submitting < jobs
       /\ GenerateMusic
    \/ SubmitFails
    \/ started < jobs /\ SubmitReturns
    \/ \E j \in Jobs : RemoteAdvance(j)
    \/ \E j \in Jobs : /\ TicksOf(Jobs) < ticks
                        /\ BagCardinality(inflight) < flights
                        /\ Tick(j)
    \/ \E q \in DOMAIN inflight : Response(q)
    \/ Dispose

\* The player's own steps.
PlayerNext ==
    \/ ToggleMute
    \/ \E idx \in 1..NumPlayers : PlayAudioWake(idx)
    \/ TrackedExit
    \/ OrphanExit
    \/ KilledExit

\* The whole extension, one job at a time.
Next == ClientNext(FALSE, 1, MaxTicks, MaxInFlight) \/ PlayerNext

Spec == Init /\ [][Next]_vars

\* The toggleAudio command of a user who mutes the audio before the first
\* generation and leaves it muted.
MuteFirst == ~isMuted /\ ToggleMute

\* The client with the audio muted.
NextClient == MuteFirst \/ ClientNext(TRUE, MaxJobs, MaxTicks, MaxInFlight)

SpecClient == Init /\ [][NextClient]_vars

\* One poll loop run to the end of its attempt budget, audio muted.
NextBudget == MuteFirst \/ ClientNext(TRUE, 1, maxPolls + 1, MaxInFlight)

SpecBudget == Init /\ [][NextBudget]_vars

\* The same with at most MaxAwaited status queries awaited at a time, the
\* timer of a registered interval firing again and again and every status
\* query awaited returning or failing in the end.
NextBudgetFair == MuteFirst \/ ClientNext(TRUE, 1, maxPolls + 1, MaxAwaited)

TimerTicks ==
    \E j \in Jobs : /\ TicksOf(Jobs) < maxPolls + 1
                     /\ BagCardinality(inflight) < MaxAwaited
                     /\ Tick(j)

QueryEnds == \E q \in DOMAIN inflight : Response(q)

SpecBudgetFair ==
    /\ Init /\ [][NextBudgetFair]_vars
    /\ WF_vars(TimerTicks)
    /\ WF_vars(QueryEnds)

\* The success detection system and the submissions it makes.
NextSuccess ==
    \/ \E event \in SuccessEvents :
           /\ detections < MaxDetections /\ submitting < MaxSubmits
           /\ detectSuccess(event)
    \/ submitting < MaxSubmits /\ ManualCelebration
    \/ ToggleCelebrations
    \/ \E delay \in Delays :
           clock + delay <= celebrationCooldown + MaxElapsed /\ Advance(delay)
    \/ SubmitFails
    \/ started < MaxJobs /\ SubmitReturns

SpecSuccess == Init /\ [][NextSuccess]_vars

\* The music parameter generator applied to documents and their analyses.
NextGenerator ==
    \/ \E language \in Languages : ChangeLanguage(language)
    \/ \E n \in LineCounts : EditDocument(n)
    \/ \E a \in CodeAnalyses : AnalysisArrives(a)
    \/ GenerateFromAnalysis

SpecGenerator == Init /\ [][NextGenerator]_vars

\* The diagnostics tracker summarising the active document's diagnostics.
NextDiagnostics ==
    \E errorCount \in ErrorCounts, warningCount \in WarningCounts :
        UpdateDiagnosticSummary(errorCount, warningCount)

SpecDiagnostics == Init /\ [][NextDiagnostics]_vars

\* The analysis client parsing the texts the service returns.
NextTandem ==
    \E text \in AnalysisTexts, language \in ParsedLanguages :
        ParseAnalysisResponse(text, language)

SpecTandem == Init /\ [][NextTandem]_vars

\* The terminal listener handling the ends of task processes; a handler
\* runs to its end before anything else happens.
NextListener ==
    \/ StartListening
    \/ StopListening
    \/ \E taskName \in EndedTaskNames, command \in TaskCommands,
          exitCode \in TaskExitCodes :
           /\ taskEnds < MaxTaskEnds
           /\ submitting < MaxSubmits
           /\ OnTaskProcessEnd(taskName, command, exitCode)
    \/ OnTaskProcessEndSuccess
    \/ pendingTask = NoEvent /\ ToggleCelebrations
    \/ \E delay \in Delays :
           /\ pendingTask = NoEvent
           /\ clock + delay <= celebrationCooldown + MaxElapsed
           /\ Advance(delay)
    \/ pendingTask = NoEvent /\ SubmitFails
    \/ pendingTask = NoEvent /\ started < MaxJobs /\ SubmitReturns

SpecListener == Init /\ [][NextListener]_vars

\* The code monitor: edits, editor changes, timers and the analysis
\* service's answers, in any order.
NextMonitor ==
    \/ StartMonitoring
    \/ StopMonitoring
    \/ \E editor \in BOOLEAN : OnActiveEditorChanged(editor)
    \/ \E text \in Contents : OnDocumentChanged(text)
    \/ \E delay \in TimerDelays :
           /\ timerClock + delay <= MaxTimerClock
           /\ TimerAdvance(delay)
    \/ \E timer \in timers, enabled \in BOOLEAN :
           AnalyzeDocument(timer, enabled)
    \/ \E run \in DOMAIN runs, language \in MonitoredLanguages,
          response \in ServiceResponses :
           /\ submitting < MaxSubmits \/ response.kind # "ok"
           /\ AnalyzeCodeReturns(run, language, response)

SpecMonitor == Init /\ [][NextMonitor]_vars

\* The play, stop and toggle commands, with the monitor, the diagnostic
\* tracker and the success detector at work.
NextCommands ==
    \/ PlayCommand
    \/ StopCommand
    \/ ToggleCommand
    \/ \E text \in CommandTexts : OnDocumentChanged(text)
    \/ \E delay \in TimerDelays :
           /\ timerClock + delay <= MaxTimerClock
           /\ TimerAdvance(delay)
    \/ \E timer \in timers : AnalyzeDocument(timer, configEnabled)
    \/ \E run \in DOMAIN runs, language \in MonitoredLanguages,
          response \in CommandResponses :
           /\ submitting < MaxSubmits \/ response.kind # "ok"
           /\ AnalyzeCodeReturns(run, language, response)
    \/ \E errorCount \in CommandErrorCounts :
           /\ submitting < MaxSubmits
           /\ UpdateDiagnosticSummaryPlaying(errorCount, 0)
    \/ \E event \in CommandEvents :
           /\ detections < MaxDetections /\ submitting < MaxSubmits
           /\ detectSuccess(event)

SpecCommands == Init /\ [][NextCommands]_vars

\* ------------------------------------------------------------- claims

Terminal == {"complete", "error"}

\* This step is the tick callback resuming on its query q.
Handled(q) == BagIn(q, inflight) /\ inflight' = inflight (-) SetToBag({q})

\* This step handles a transition of job j's status into s.
Enters(j, s) == lastStatus[j] # s /\ lastStatus'[j] = s

\* C1: after any sequence of submissions, ticks, responses and dispose, at
\* most one poll interval is registered.
C1_AtMostOneInterval == Cardinality(activePollingIntervals) <= 1

\* A second loop was started while the first was registered, and is the
\* only one registered.
C1_Witness ==
    /\ started = 2
    /\ 1 \in superseded
    /\ activePollingIntervals = {2}

\* C2: once a newer loop's start has cancelled job j's loop, nothing is
\* handled, played or reported on behalf of j, also not for a query of j
\* that was awaited when the loop was cancelled.
C2_NoEffectAfterSupersede ==
    [][\A j \in Jobs :
          j \in superseded =>
              /\ lastStatus'[j] = lastStatus[j]
              /\ played'[j] = played[j]
              /\ notes'[j] = notes[j]]_vars

\* C3: at most one player process is alive, and it is the one audioProcess
\* names.
C3_OnePlaybackProcess ==
    /\ orphans = 0
    /\ orphans + (IF audioProcess = "live" THEN 1 ELSE 0) <= 1

\* C4: a tick that observes streaming with a URL, for a job no stream
\* playback was started for yet, calls playAudio with that URL in that tick.
C4_StreamStartsAtOnce ==
    [][\A q \in DOMAIN inflight :
          (Handled(q) /\ StartsStream(q) /\ played[q.job]["stream"] = 0) =>
              /\ played'[q.job]["stream"] = 1
              /\ currentUrl' = q.audio_url]_vars

\* C5: the tick that handles the change to complete hands the final URL to
\* the player, which stops the process it tracked, and cancels the loop; no
\* tick of that job follows.
C5_CompleteSwitchesAndStops ==
    [][\A j \in Jobs :
          /\ Enters(j, "complete") =>
                 /\ currentUrl' = Url(j, "final")
                 /\ played'[j]["final"] = played[j]["final"] + 1
                 /\ exitsPending' =
                        exitsPending + StopAudioKills(audioProcess)
                 /\ j \notin activePollingIntervals'
          /\ lastStatus[j] = "complete" => pollCount'[j] = pollCount[j]]_vars

\* C6: the tick that handles the change to error cancels the loop, reports
\* the error and leaves the player and the submissions alone; no tick of
\* that job follows.
C6_ErrorStopsPolling ==
    [][\A j \in Jobs :
          /\ Enters(j, "error") =>
                 /\ j \notin activePollingIntervals'
                 /\ "error" \in notes'[j]
                 /\ UNCHANGED <<played, playerVars, submitting, started>>
          /\ "error" \in notes[j] =>
                 /\ pollCount'[j] = pollCount[j]
                 /\ j \notin activePollingIntervals']_vars

\* An error was handled and reported for a loop that had ticked.
C6_Witness ==
    \E j \in Jobs :
        /\ lastStatus[j] = "error"
        /\ "error" \in notes[j]
        /\ pollCount[j] > 0
        /\ j \notin activePollingIntervals

\* C7: once a transition into complete or error was handled for a job, no
\* further transition is handled and no playback started for it.
C7_TerminalIsFinal ==
    [][\A j \in Jobs :
          lastStatus[j] \in Terminal =>
              /\ lastStatus'[j] = lastStatus[j]
              /\ played'[j] = played[j]]_vars

\* C8: a poll loop issues at most maxPolls status queries.
C8_AtMostMaxPolls == \A j \in Jobs : pollCount[j] <= maxPolls

\* C9: when a callback of a loop that has made its 60th attempt resumes and
\* neither it nor an earlier one observed complete or error, the loop is
\* cancelled and a timeout, no error, is reported; no attempt follows.
C9_TimeoutAtBudget ==
    [][\A j \in Jobs :
          (BudgetSpent(j) /\ lastStatus[j] \notin Terminal) =>
              /\ pollCount'[j] = pollCount[j]
              /\ \A q \in DOMAIN inflight :
                     (Handled(q) /\ q.job = j /\ q.status \notin Terminal) =>
                         /\ j \notin activePollingIntervals'
                         /\ "timeout" \in notes'[j]
                         /\ "error" \notin notes'[j]]_vars

\* C10: a tick whose fetched status is the one last recorded for its job
\* calls no playback, reports nothing and records nothing; it can only
\* cancel the loop, and report the timeout, when the budget is spent.
C10_SameStatusSkips ==
    [][\A q \in DOMAIN inflight :
          (Handled(q) /\ q.ok /\ q.status = lastStatus[q.job]) =>
              /\ UNCHANGED <<lastStatus, played, playerVars>>
              /\ UNCHANGED <<started, submitting, pollCount, superseded>>
              /\ IF pollCount[q.job] >= maxPolls
                 THEN /\ activePollingIntervals' =
                             activePollingIntervals \ {q.job}
                      /\ notes' = [notes EXCEPT ![q.job] = @ \cup {"timeout"}]
                 ELSE UNCHANGED <<activePollingIntervals, notes>>]_vars

\* A loop whose every query returned "submitted" ran out of its budget: all
\* but the first of its ticks fetched the status last recorded.
C10_Witness ==
    \E j \in Jobs :
        /\ pollCount[j] = maxPolls
        /\ lastStatus[j] = "submitted"
        /\ "timeout" \in notes[j]
        /\ j \notin activePollingIntervals
        /\ inflight = EmptyBag

\* C11: a generateMusic call whose submission fails, or that finds no API
\* token, returns an error record carrying the request's bpm, genre and
\* duration, starts no poll loop and submits nothing again.
C11_SubmitFailureReturnsError ==
    /\ [][/\ (submitting' < submitting /\ started' = started) =>
              /\ \E params \in DOMAIN requests :
                     /\ requests' = requests (-) SetToBag({params})
                     /\ returned' = [status |-> "error",
                                      metadata |->
                                          [bpm |-> params.bpm,
                                           genre |-> params.genre,
                                           duration |-> params.duration]]
              /\ UNCHANGED <<activePollingIntervals, pollCount, inflight>>
          /\ (~apiToken /\ returned' # returned) =>
              /\ \E params \in MusicParameters :
                     returned' = [status |-> "error",
                                  metadata |->
                                      [bpm |-> params.bpm,
                                       genre |-> params.genre,
                                       duration |-> params.duration]]
              /\ UNCHANGED <<started, submitting, requests,
                             activePollingIntervals, pollCount, inflight>>]_vars
    /\ [](~apiToken => started = 0 /\ submitting = 0)

\* A submission failed while an earlier job's loop was registered: the
\* error record was returned and that loop is still the only one.
C11_Witness ==
    /\ started = 1
    /\ submitting = 0
    /\ activePollingIntervals = {1}
    /\ returned.status = "error"

\* C12: a detectSuccess call made less than celebrationCooldown ms after the
\* last accepted celebration decides nothing and sends no celebration, for
\* every event.
C12_CooldownSilences ==
    [][(/\ detections' = detections + 1
        /\ clock - lastCelebrationTime < 5000) =>
           /\ detected'.pattern = NoPattern
           /\ UNCHANGED <<lastCelebrationTime, celebrated>>
           /\ UNCHANGED <<submitting, requests, returned, started>>]_vars

\* A task event that the exit-code case would celebrate was passed 4999 ms
\* after a celebration, and was skipped.
C12_Witness ==
    /\ detected.cooldown
    /\ detected.event.type = "task_success"
    /\ Analyzed[detected.event] # NoPattern
    /\ clock - lastCelebrationTime = 4999
    /\ celebrated # NoCelebration

\* detectSuccess analysed a task_success event with exit code 0.
TaskAnalysed ==
    /\ detected.event.type = "task_success"
    /\ ~detected.cooldown
    /\ detected.event.details.exitCode = 0

\* C13: for a task_success event with exit code 0 the result of analyzeEvent
\* is the general-table match when there is one, and the exit-code decision
\* only when there is none.
C13_GeneralTableFirst ==
    TaskAnalysed =>
        IF detected.bestMatch # NoPattern
        THEN detected.pattern = detected.bestMatch
        ELSE detected.pattern = ExitCodeMatch(detected.event)

\* C14: a task_success event with exit code 0 whose command contains "jest"
\* is decided test_pass, and one whose command contains "docker push" is
\* decided deployment, whatever the task name and the rest of the command.
C14_JestAndDockerPush ==
    TaskAnalysed =>
        /\ Includes(detected.event.details.command, "jest") =>
               detected.pattern.celebrationType = "test_pass"
        /\ Includes(detected.event.details.command, "docker push") =>
               detected.pattern.celebrationType = "deployment"

\* For each event, the table entries whose expression matches its text, and
\* the score testPattern gives each entry on it.
MatchingPatterns ==
    [event \in SuccessEvents |->
        {i \in 1..Len(successPatterns) :
             RegExpTest(successPatterns[i].pattern,
                        extractTextFromEvent(event))}]

PatternScores ==
    [event \in SuccessEvents |->
        [i \in 1..Len(successPatterns) |->
            testPattern(successPatterns[i], extractTextFromEvent(event))]]

\* C15: the bestMatch of the pattern loop is null when no table entry
\* matches the text, and else the matching entry of the highest confidence,
\* the earliest of them in table order; a matching entry scores its declared
\* confidence, which passes the 80% threshold, and any other scores zero.
C15_BestMatchIsMaximal ==
    (detected.event # NoEvent /\ ~detected.cooldown) =>
        LET matching == MatchingPatterns[detected.event]
            score == PatternScores[detected.event]
        IN  /\ \A i \in 1..Len(successPatterns) :
                   /\ score[i] = IF i \in matching
                                 THEN successPatterns[i].confidence ELSE 0
                   /\ i \in matching =>
                          score[i] * 10 >= successPatterns[i].confidence * 8
            /\ IF matching = {}
               THEN detected.bestMatch = NoPattern
               ELSE \E i \in matching :
                        /\ detected.bestMatch = successPatterns[i]
                        /\ \A j \in matching :
                               /\ successPatterns[j].confidence <=
                                      successPatterns[i].confidence
                               /\ successPatterns[j].confidence =
                                      successPatterns[i].confidence => i <= j

\* A text that two entries of equal confidence match (entries 2 and 4 at
\* 0.9) was analysed: the result is the earlier entry.
C15_Witness ==
    /\ ~detected.cooldown
    /\ detected.event.type = "terminal_output"
    /\ {2, 4} \subseteq MatchingPatterns[detected.event]
    /\ detected.bestMatch = successPatterns[2]

\* A request has been generated for the analysis and the document.
Generated == musicParams # NoParams

\* C16: for every complexity tier, every language, every valid analysis
\* (recommendedBPM in 60..140, energy in 1..10) and every line count from 0
\* to 10,000, the request generateFromAnalysis returns has its bpm in
\* [40,200] and its energy in [1,10] (energy is kept in tenths).
C16_ClampInvariant ==
    (/\ Generated
     /\ analysis.recommendedBPM \in 60..140
     /\ analysis.energy \in 1..10
     /\ lineCount \in 0..10000)
    => /\ musicParams.bpm \in 40..200
       /\ musicParams.energy \in 10..100

\* A request whose tempo and energy both had to be cut down to the upper
\* limits: 140 bpm and energy 10 in a file of 500 lines or more.
C16_Witness ==
    /\ Generated
    /\ analysis.recommendedBPM = 140
    /\ analysis.energy = 10
    /\ lineCount >= 500
    /\ musicParams.bpm = 200
    /\ musicParams.energy = 100

\* C17: getSizeModifier is monotonic: for line counts n1 < n2 each of
\* bpmAdjustment, energyAdjustment, duration and stressMultiplier for n2 is
\* at least the value for n1.  n2 is the document's line count, n1 any
\* smaller line count of LineCounts.
C17_SizeMonotonic ==
    sizeModifier # NoSizeModifier =>
        \A n1 \in LineCounts :
            n1 < lineCount =>
                /\ getSizeModifier(n1).bpmAdjustment
                       <= sizeModifier.bpmAdjustment
                /\ getSizeModifier(n1).energyAdjustment
                       <= sizeModifier.energyAdjustment
                /\ getSizeModifier(n1).duration <= sizeModifier.duration
                /\ getSizeModifier(n1).stressMultiplier
                       <= sizeModifier.stressMultiplier

\* The modifier of the largest document, which every other line count is
\* compared with.
C17_Witness ==
    /\ sizeModifier # NoSizeModifier
    /\ lineCount = MaxLineCount
    /\ sizeModifier.duration > getSizeModifier(0).duration

\* The bucket of a line count: one more than the number of bounds it has
\* reached.
BucketOf(n) ==
    1 + Cardinality({i \in 1..6 : n >= <<25, 50, 100, 150, 300, 500>>[i]})

AllStressInstruments ==
    {"urgent percussion", "building tension", "rapid percussion",
     "tense strings", "escalating intensity", "dissonant harmonies",
     "urgent brass", "overwhelming orchestral"}

\* The request generated for simple python code of 10 lines.
SimplePython ==
    /\ Generated
    /\ analysis.complexity = "simple"
    /\ languageId = "python"
    /\ lineCount = 10

\* duration 25, python's genre, no stress instrument.
SimplePythonRest ==
    /\ musicParams.duration = 25
    /\ musicParams.genre = "algorithmic ambient"
    /\ \A i \in 1..Len(musicParams.instruments) :
           musicParams.instruments[i] \notin AllStressInstruments

\* C19 (as claimed): for a simple analysis, python and 10 lines, the bpm of
\* the request is a value of the simple tier's range (50..70) less 15, its
\* duration is 25, its genre is python's algorithmic ambient and its
\* instruments include no stress instrument.
C19_SimplePython ==
    SimplePython =>
        /\ musicParams.bpm \in {b - 15 : b \in 50..70}
        /\ SimplePythonRest

\* C19 (amended): the bpm is the analysis's recommendedBPM when it has one,
\* and otherwise a value of the simple tier's range, less 15 and then held
\* within [40,200]; the duration, genre and instruments are as claimed.
C19_SimplePythonAmended ==
    SimplePython =>
        /\ musicParams.bpm \in
               {IF b - 15 < 40 THEN 40 ELSE IF b - 15 > 200 THEN 200 ELSE b - 15 :
                    b \in IF analysis.recommendedBPM # 0
                          THEN {analysis.recommendedBPM}
                          ELSE 50..70}
        /\ SimplePythonRest

\* A draw from the simple tier that, less 15, had to be raised to 40.
C19_Witness ==
    /\ SimplePython
    /\ analysis.recommendedBPM = 0
    /\ musicParams.bpm = 40
    /\ musicParams.duration = 25

\* C20: for a very_complex analysis and 400 lines, in any language, the
\* request has duration 120, a genre that starts with "overwhelming ", at
\* least one maximum-stress instrument, and a prompt whose stress clause is
\* the high-stress one.
C20_VeryComplexLong ==
    (Generated /\ analysis.complexity = "very_complex" /\ lineCount = 400)
    => /\ musicParams.duration = 120
       /\ Len(musicParams.genre) >= 13
       /\ SubSeq(musicParams.genre, 1, 13) = "overwhelming "
       /\ \E i \in 1..Len(musicParams.instruments) :
              musicParams.instruments[i] \in
                  {"dissonant harmonies", "urgent brass",
                   "overwhelming orchestral"}
       /\ \E i \in 1..Len(musicParams.prompt) :
              musicParams.prompt[i].clause = "URGENT, overwhelming stress. "

\* Such a request for a language with no override of its own.
C20_Witness ==
    /\ Generated
    /\ analysis.complexity = "very_complex"
    /\ lineCount = 400
    /\ languageId = "plaintext"
    /\ musicParams.duration = 120

\* generateFromDiagnostics has been called with these counts.
DiagnosedWith(errorCount, warningCount, previousErrorCount) ==
    /\ diagnosed # NoDiagnosis
    /\ diagnosed.errorCount = errorCount
    /\ diagnosed.warningCount = warningCount
    /\ diagnosed.previousErrorCount = previousErrorCount

\* The request carries the fixed row of this severity.
HasSeverityRow(params, bpm, energy, mood, genre) ==
    /\ params.bpm = bpm
    /\ params.energy = energy * 10
    /\ params.mood = mood
    /\ params.genre = genre

\* C21 (as claimed): generateFromDiagnostics(12, 3, 12) computes
\* isImproving = false and totalIssues = 13.5 (27 halves), classifies the
\* severity as high, not critical, and returns the high-severity profile.
C21_TwelveErrorsHigh ==
    DiagnosedWith(12, 3, 12) =>
        /\ ~diagnosed.isImproving
        /\ totalIssues(diagnosed.errorCount, diagnosed.warningCount) = 27
        /\ diagnosed.severity = "high"
        /\ HasSeverityRow(diagnosticParams, 65, 2, "troubled", "dark ambient")

\* C21 (amended): generateFromDiagnostics(12, 3, 12) computes
\* isImproving = false and totalIssues = 13.5, classifies the severity as
\* critical (errorCount >= 10) and returns the critical-severity profile.
C21_TwelveErrorsCritical ==
    DiagnosedWith(12, 3, 12) =>
        /\ ~diagnosed.isImproving
        /\ totalIssues(diagnosed.errorCount, diagnosed.warningCount) = 27
        /\ diagnosed.severity = "critical"
        /\ HasSeverityRow(diagnosticParams, 55, 1, "urgent",
                          "ominous ambient")

\* The call of the scenario has been made and has returned a request.
C21_Witness ==
    /\ DiagnosedWith(12, 3, 12)
    /\ diagnosticParams # NoParams
    /\ diagnosticParams.duration = 30

\* C22: for every non-improving input, with totalIssues = errorCount +
\* 0.5 * warningCount, the request's severity is critical iff errorCount >=
\* 10 or totalIssues >= 15; else high iff errorCount >= 5 or totalIssues >=
\* 10; else medium iff errorCount >= 2 or totalIssues >= 5; else low; its
\* bpm / energy are that severity's row (critical 55/1, high 65/2, medium
\* 75/3, low 85/4) and its tags end in the errors and warnings markers.
C22_SeverityRows ==
    (diagnosed # NoDiagnosis /\ ~diagnosed.isImproving) =>
        LET e == diagnosed.errorCount
            w == diagnosed.warningCount
            doubled == 2 * e + w
            row == IF e >= 10 \/ doubled >= 30 THEN <<"critical", 55, 1>>
                   ELSE IF e >= 5 \/ doubled >= 20 THEN <<"high", 65, 2>>
                   ELSE IF e >= 2 \/ doubled >= 10 THEN <<"medium", 75, 3>>
                   ELSE <<"low", 85, 4>>
            tags == diagnosticParams.tags
        IN  /\ diagnosed.severity = row[1]
            /\ diagnosticParams.complexity = row[1]
            /\ diagnosticParams.bpm = row[2]
            /\ diagnosticParams.energy = row[3] * 10
            /\ Len(tags) >= 2
            /\ tags[Len(tags) - 1] = ToString(e) \o "_errors"
            /\ tags[Len(tags)] = ToString(w) \o "_warnings"

\* Nine errors and twelve warnings, not improving: critical by the total
\* (15) alone.
C22_Witness ==
    /\ diagnosed # NoDiagnosis
    /\ ~diagnosed.isImproving
    /\ diagnosed.errorCount = 9
    /\ diagnosed.warningCount = 12
    /\ diagnosticParams.bpm = 55

\* The fixed hopeful profile.
Hopeful(params) ==
    /\ params.bpm = 95
    /\ params.mood = "hopeful"
    /\ params.energy = 60
    /\ params.duration = 30

\* C23: when previousErrorCount is defined and errorCount is below it,
\* generateFromDiagnostics returns the hopeful profile (bpm 95, mood
\* hopeful, energy 6, duration 30) whatever errors and warnings remain;
\* when previousErrorCount is undefined or errorCount is not below it, it
\* never returns that profile.
C23_HopefulIffImproving ==
    diagnosed # NoDiagnosis =>
        (Hopeful(diagnosticParams)
            <=> (/\ diagnosed.previousErrorCount # Undefined
                 /\ diagnosed.errorCount < diagnosed.previousErrorCount))

\* Eleven errors and twelve warnings remain after twelve errors: hopeful.
C23_Witness ==
    /\ DiagnosedWith(11, 12, 12)
    /\ Hopeful(diagnosticParams)

\* C24: generatePrompt is a pure function: its result differs from the
\* Stage-2 output it was given only in the prompt (bpm, energy, duration,
\* instruments, genre and tags are unchanged), and rendering the same request
\* again yields the identical prompt.
C24_PromptOnly ==
    Generated =>
        /\ contextualParams # NoParams
        /\ [musicParams EXCEPT !.prompt = contextualParams.prompt]
               = contextualParams
        /\ generatePrompt(musicParams) = musicParams

\* A request for a long file, whose prompt names fewer instruments than the
\* request lists.
C24_Witness ==
    /\ Generated
    /\ lineCount >= 300
    /\ Len(musicParams.instruments) > 4
    /\ \E i \in 1..Len(musicParams.prompt) :
           /\ musicParams.prompt[i].clause = "Instruments"
           /\ Len(musicParams.prompt[i].instruments) <= 4

\* The instruments and the genre before the escalation: the language's
\* override, or else those of Stage 1.
BaseInstruments ==
    IF languageId \in DOMAIN LanguageInstruments
    THEN LanguageInstruments[languageId]
    ELSE complexityMappings[analysis.complexity].instruments

BaseGenre ==
    IF languageId \in DOMAIN LanguageGenres THEN LanguageGenres[languageId]
    ELSE IF analysis.genre # "" THEN analysis.genre
    ELSE complexityMappings[analysis.complexity].genre

ParsedObject == analysisText # NoText /\ analysisText.kind = "json"

\* C27: every CodeAnalysis parseAnalysisResponse returns for a parsed object
\* has complexity, mood and codeType in their domains, recommendedBPM in
\* [60,140], energy in [1,10] and a validated genre, and a field that is
\* invalid or missing has the value of the language's default profile.
C27_ValidatedOrLanguageDefault ==
    ParsedObject =>
        LET parsed == analysisText.parsed
            profile == createFallbackAnalysis(parsedLanguage)
        IN  /\ parsedAnalysis.complexity \in validComplexities
            /\ parsedAnalysis.mood \in validMoods
            /\ parsedAnalysis.codeType \in validCodeTypes
            /\ parsedAnalysis.recommendedBPM \in 60..140
            /\ parsedAnalysis.energy \in 1..10
            /\ parsedAnalysis.genre.type = "string"
            /\ ~ValidIn(validComplexities, parsed.complexity) =>
                   parsedAnalysis.complexity = profile.complexity
            /\ ~ValidIn(validMoods, parsed.mood) =>
                   parsedAnalysis.mood = profile.mood
            /\ ~ValidIn(validCodeTypes, parsed.codeType) =>
                   parsedAnalysis.codeType = profile.codeType
            /\ parseInt(parsed.recommendedBPM.text) \notin 60..140 =>
                   parsedAnalysis.recommendedBPM = profile.recommendedBPM
            /\ parseInt(parsed.energy.text) \notin 1..10 =>
                   parsedAnalysis.energy = profile.energy

\* This step is onTaskProcessEnd handling a task process that ended with a
\* non-zero (or no) exit code.
FailedTaskEnds == taskEnds' = taskEnds + 1 /\ taskEnded'.exitCode # 0

\* C30: a task-process-end event with a non-zero exit code never leads to a
\* celebration: no success event is passed to the success detector for it
\* (none is pending either) and no celebration request is dispatched.
C30_FailedTaskNeverCelebrates ==
    [][FailedTaskEnds =>
          /\ detections' = detections
          /\ detected' = detected
          /\ pendingTask' = NoEvent
          /\ celebrated' = celebrated
          /\ lastCelebrationTime' = lastCelebrationTime
          /\ requests' = requests
          /\ submitting' = submitting]_vars

\* A task process has ended with exit code 1 while celebrations were on and
\* no cooldown was running, and nothing has been detected or celebrated.
C30_Witness ==
    /\ taskEnds > 0
    /\ taskEnded.exitCode = 1
    /\ celebrationsOn
    /\ ~isInCooldown
    /\ detections = 0
    /\ celebrated = NoCelebration

\* The analysis of this run failed: the service call did, or its text held
\* no JSON object that parses.
AnalysisFailed(run) ==
    \/ run.response.kind \in ServiceFailures
    \/ run.response.kind = "ok" /\ run.response.text.kind # "json"

\* C26: an analysis run whose service call failed, or whose text could not
\* be parsed, went on with the fallback CodeAnalysis of the document's
\* language: parameters were generated from it and handed to generateMusic,
\* and no error message was shown to the user.
C26_FailureRecovered ==
    AnalysisFailed(lastRun) =>
        /\ lastRun.codeAnalysis = createFallbackAnalysis(lastRun.language)
        /\ lastRun.submitted
        /\ ~lastRun.errorShown

\* This step is a timer firing, that is, analyzeDocument being called.
RunStarts == timers' # timers /\ analysisTimer' = analysisTimer

\* C28: at most one analysis timer is pending at any time, and
\* analyzeDocument is called only when analysisSensitivity ms have passed
\* since the active document was last edited.
C28_Debounced ==
    /\ [](Cardinality(timers) <= 1)
    /\ [][RunStarts /\ lastEdit # Undefined
              => timerClock - lastEdit >= analysisSensitivity]_vars

\* An edit made while the clock was running restarted the timer, the timer
\* has fired a full quiet period later, and the analysis of the edited text
\* is in flight.
C28_Witness ==
    /\ lastEdit > 0
    /\ analysisTimer = lastEdit + analysisSensitivity
    /\ timers = {}
    /\ BagIn([content |-> documentText], runs)

\* C29: no two analysis runs in flight are for the same document content.
C29_NoOverlappingRuns ==
    \A run \in DOMAIN runs : CopiesIn(run, runs) <= 1

CelebrationTypes == {"compilation_success", "bug_fix", "test_pass",
                     "deployment"}

\* This step hands one celebration request of this type to the client:
\* generateMusic is called with the type's parameters, and either starts
\* its submission or, without a token, returns its error record.
Dispatches(celebrationType) ==
    LET params == getCelebrationParameters(celebrationType)
    IN  IF apiToken
        THEN /\ submitting' = submitting + 1
             /\ requests' = requests (+) SetToBag({params})
        ELSE /\ returned' = ErrorResponse(params)
             /\ UNCHANGED <<submitting, requests>>

\* This step is a detectSuccess call.
Detects == detections' = detections + 1

\* The detectSuccess call of this step decided on a celebration.
Accepts ==
    /\ Detects
    /\ ~detected'.cooldown
    /\ detected'.pattern # NoPattern
    /\ celebrationsOn

\* C31: lastCelebrationTime changes only in a step that hands one
\* celebration request to the client, of the decided type if the step is a
\* detectSuccess call; a detectSuccess call that decides on a celebration
\* sets the time and hands over the request of its type, and one that
\* decides on none (no match, cooldown, celebrations off) changes neither
\* the time nor the client.
C31_TimeAndDispatchTogether ==
    [][/\ lastCelebrationTime' # lastCelebrationTime =>
              \E celebrationType \in CelebrationTypes :
                  /\ Dispatches(celebrationType)
                  /\ Detects =>
                         detected'.pattern.celebrationType = celebrationType
       /\ Accepts =>
              /\ lastCelebrationTime' = clock
              /\ Dispatches(detected'.pattern.celebrationType)
       /\ (Detects /\ ~Accepts) =>
              UNCHANGED <<lastCelebrationTime, submitting, requests,
                          returned>>]_vars

\* A detectSuccess call has decided on a celebration, set the time and
\* handed its request to the client.
C31_Witness ==
    /\ detected.pattern # NoPattern
    /\ celebrated.celebrationType = detected.pattern.celebrationType
    /\ lastCelebrationTime = clock
    /\ BagIn(getCelebrationParameters(detected.pattern.celebrationType),
             requests)

\* This step submits a music generation request to the service.
Submits == submitting' > submitting

\* C32: from the stop command until the extension is enabled again, no
\* music generation request is submitted, by the code monitor, the
\* diagnostic tracker or the success detector.
C32_NoSubmissionWhileStopped ==
    [][~configEnabled /\ ~configEnabled' => ~Submits]_vars

\* C33: every poll loop that is started is cancelled in the end, the timer
\* ticks firing and the status queries returning or failing.
C33_EveryLoopCancelled ==
    \A j \in Jobs :
        (j \in activePollingIntervals) ~> (j \notin activePollingIntervals)

\* A poll loop has run to the end of its attempt budget and was cancelled
\* there.
C33_Witness ==
    /\ started = 1
    /\ pollCount[1] >= maxPolls
    /\ 1 \notin activePollingIntervals
    /\ ~disposed

\* C34: a step in which a tick callback resumes on a status query that
\* threw leaves the last status and the player as they are; it removes the
\* loop's interval if the loop's attempt count is 10 or more, and leaves the
\* registered intervals as they are otherwise.
C34_ThrowOnlyCountsAgainstBudget ==
    [][\A q \in DOMAIN inflight :
           (Handled(q) /\ ~q.ok) =>
               /\ lastStatus' = lastStatus
               /\ UNCHANGED <<playerVars, played>>
               /\ activePollingIntervals' =
                      IF pollCount[q.job] >= maxErrorPolls
                      THEN activePollingIntervals \ {q.job}
                      ELSE activePollingIntervals]_vars

\* A loop past its tenth attempt, short of its attempt budget and with
\* nothing reported, is cancelled: a query that threw has cancelled it.
C34_Witness ==
    /\ started = 1
    /\ ~disposed
    /\ pollCount[1] >= maxErrorPolls
    /\ pollCount[1] < maxPolls
    /\ notes[1] = {}
    /\ 1 \notin activePollingIntervals

\* This step is a generateMusic call failing: its makeApiCall throws, or
\* there is no token and it returns its error record at once.
SubmissionFails ==
    \/ submitting' = submitting - 1 /\ started' = started
    \/ ~apiToken /\ returned' # returned

StressMarker(n) == IF n >= 50 THEN "high_stress" ELSE "manageable"

\* C36: the Stage-2 tags are the Stage-1 tags, then the language's two tags
\* when the language has an override, then the line-count marker and the
\* stress marker; an unknown language keeps the Stage-1 genre and
\* instruments apart from the line-count escalation.
C36_OverrideTagsKept ==
    contextualParams # NoParams =>
        \A baseParams \in getBaseParameters(analysis) :
            /\ contextualParams.tags =
                   (IF KnownLanguage(languageId)
                    THEN baseParams.tags \o LanguageTags[languageId]
                    ELSE baseParams.tags)
                   \o <<LinesTag(lineCount), StressMarker(lineCount)>>
            /\ ~KnownLanguage(languageId) =>
                   /\ contextualParams.genre =
                          StressGenre(baseParams.genre, lineCount)
                   /\ contextualParams.instruments =
                          baseParams.instruments \o StressInstruments(lineCount)

\* The analysis names a tempo and an energy (the analysis client keeps
\* them in 40..200 and 1..10).
NamesTempoAndEnergy(a) ==
    a # NoAnalysis /\ a.recommendedBPM # 0 /\ a.energy # 0

\* C37: for an analysis that names a tempo and an energy,
\* generateFromAnalysis has one possible result for the analysis, the
\* language and the line count, which is the request it returned, and the
\* base parameters carry the analysis's tempo and energy.
C37_NoDrawWhenNamed ==
    NamesTempoAndEnergy(analysis) =>
        /\ \A p, q \in generateFromAnalysis(analysis, languageId, lineCount) :
               p = q
        /\ \A baseParams \in getBaseParameters(analysis) :
               /\ baseParams.bpm = analysis.recommendedBPM
               /\ baseParams.energy = analysis.energy * 10
        /\ musicParams # NoParams =>
               generateFromAnalysis(analysis, languageId, lineCount)
                   = {musicParams}

\* A request was generated for a simple analysis that names a tempo and an
\* energy outside the ranges the simple mapping draws from.
C37_Witness ==
    /\ musicParams # NoParams
    /\ analysis.complexity = "simple"
    /\ analysis.recommendedBPM = 140
    /\ analysis.energy = 10

\* C38: while the player is muted no player process is alive, tracked or
\* not.
C38_SilentWhileMuted ==
    isMuted => audioProcess # "live" /\ orphans = 0

\* The terminal_output event of the task whose task_success event is still
\* to come was decided on as a celebration, which was dispatched.
FirstEventDispatched ==
    /\ pendingTask # NoEvent
    /\ detected.event.type = "terminal_output"
    /\ ~detected.cooldown
    /\ detected.pattern # NoPattern
    /\ celebrationsOn

\* C39: when the terminal_output event of a task that ended with exit code
\* 0 has dispatched a celebration, the task_success event of the same task
\* dispatches none: it finds the cooldown running and changes neither the
\* time nor the client.
C39_OneCelebrationPerTaskEnd ==
    [][FirstEventDispatched =>
          /\ detected'.event.type = "task_success"
          /\ detected'.cooldown
          /\ UNCHANGED <<lastCelebrationTime, celebrated, submitting,
                         requests, returned>>]_vars

\* Both events of a task that ended with exit code 0 have been handled:
\* the first was celebrated at this time, the second met the cooldown.
C39_Witness ==
    /\ pendingTask = NoEvent
    /\ taskEnded.exitCode = 0
    /\ detected.event.type = "task_success"
    /\ detected.cooldown
    /\ celebrated # NoCelebration
    /\ lastCelebrationTime = clock
    /\ submitting > 0

====
